---- MODULE Spec2Model ----
(***************************************************************************)
(* Search -> preview -> review -> apply pipeline of the multi-document     *)
(* editor (AISearchReplace.tsx, second revision, with ReplacementReview    *)
(* and the document handlers of App).                                      *)
(*                                                                         *)
(* A JavaScript string is a sequence of UTF-16 code units; a code unit is  *)
(* a one-element token ("c", " ", "\n").  "U0130" stands for the code unit *)
(* U+0130 (capital I with dot above) and "U0307" for U+0307 (combining dot *)
(* above): String.prototype.toLowerCase maps U+0130 to the two code units  *)
(* "i" U+0307, so lowering can change the length of a string.              *)
(***************************************************************************)
EXTENDS Integers, Sequences, FiniteSets, TLC

\* ---------------------------------------------------------------- bounds

\* Invocations of the asynchronous handlers that await the delegate at once.
MaxInFlight == 1
\* Candidates in one delegate answer to a search.
MaxCandidates == 2
\* Code units of the variable head of a probe document's content.
MaxHead == 2

\* Invocations of handleSearch that overlap in the search specification.
MaxOverlap == 2

\* The matches of a review whose replacement the user has edited.
MaxEdits == 1

\* The reviews that change documents.
MaxApplies == 1

\* The writes of the document list to the store that an upload, an edit or
\* a replacement may follow in the first-revision specification.
MaxWrites == 2

\* ------------------------------------------------------ program constants

\* if (aiMatch.relevance >= 6)
RelevanceThreshold == 6
\* relevance: 10 of a literal match
ExactRelevance == 10
\* Math.max(0, index - 100), index + searchTerm.length + 100
ContextRadius == 100
\* first revision: Math.max(0, index - 50), index + searchTerm.length + 50
FirstContextRadius == 50
\* document.content.trim().length < 20
MinContentLength == 20

\* ------------------------------------------------------------ JS strings

Min(a, b) == IF a < b THEN a ELSE b

Max(a, b) == IF a > b THEN a ELSE b

Clamp(i, n) == Max(0, Min(i, n))

\* s.substring(a, b): 0-based, half-open, arguments clamped and swapped.
Substring(s, a, b) ==
  LET x == Clamp(a, Len(s))
      y == Clamp(b, Len(s))
  IN SubSeq(s, Min(x, y) + 1, Max(x, y))

\* s.substring(a)
SubstringFrom(s, a) == Substring(s, a, Len(s))

\* s.indexOf(sub, from): the least 0-based offset >= from at which sub
\* occurs, -1 when there is none.
IndexOf(s, sub, from) ==
  LET start == Clamp(from, Len(s))
      hits == {i \in start..(Len(s) - Len(sub)) :
                 \A k \in 1..Len(sub) : s[i + k] = sub[k]}
  IN IF hits = {} THEN -1
     ELSE CHOOSE i \in hits : \A j \in hits : i <= j

\* s.includes(sub)
Includes(s, sub) == IndexOf(s, sub, 0) # -1

\* The lower-case mapping of one code unit.
LowerCodeUnit(c) ==
  CASE c = "A" -> <<"a">>
    [] c = "C" -> <<"c">>
    [] c = "T" -> <<"t">>
    [] c = "U0130" -> <<"i", "U0307">>
    [] OTHER -> <<c>>

RECURSIVE ToLowerCase(_)
\* s.toLowerCase()
ToLowerCase(s) ==
  IF s = <<>> THEN <<>>
  ELSE LowerCodeUnit(Head(s)) \o ToLowerCase(Tail(s))

WhiteSpace == {" ", "\n"}

RECURSIVE TrimStart(_)
TrimStart(s) ==
  IF s # <<>> /\ Head(s) \in WhiteSpace THEN TrimStart(Tail(s)) ELSE s

RECURSIVE TrimEnd(_)
TrimEnd(s) ==
  IF s # <<>> /\ s[Len(s)] \in WhiteSpace
  THEN TrimEnd(SubSeq(s, 1, Len(s) - 1))
  ELSE s

\* s.trim()
Trim(s) == TrimEnd(TrimStart(s))

\* s.split('\n').length
SplitLinesLength(s) == Cardinality({i \in 1..Len(s) : s[i] = "\n"}) + 1

\* [...a].reverse()
Reverse(a) == [i \in 1..Len(a) |-> a[Len(a) + 1 - i]]

\* An optional field of a record: undefined, or a value.
None == <<>>

Some(v) == <<v>>

\* The truthiness of an optional string: undefined and "" are falsy.
Truthy(opt) == opt # None /\ opt[1] # <<>>

\* ------------------------------------------------------------- documents

SentinelFailed ==
  <<"C", "o", "n", "t", "e", "n", "t", " ", "e", "x", "t", "r", "a", "c",
    "t", "i", "o", "n", " ", "f", "a", "i", "l", "e", "d">>

SentinelNotSupported ==
  <<"C", "o", "n", "t", "e", "n", "t", " ", "e", "x", "t", "r", "a", "c",
    "t", "i", "o", "n", " ", "n", "o", "t", " ", "s", "u", "p", "p", "o",
    "r", "t", "e", "d">>

SentinelMinimalText ==
  <<"C", "o", "n", "t", "e", "n", "t", " ", "e", "x", "t", "r", "a", "c",
    "t", "i", "o", "n", " ", "r", "e", "t", "u", "r", "n", "e", "d", " ",
    "m", "i", "n", "i", "m", "a", "l", " ", "t", "e", "x", "t">>

\* The documents handleSearch does not skip.
Searchable(document) ==
  /\ document.status = "ready"
  /\ ~ Includes(document.content, SentinelFailed)
  /\ ~ Includes(document.content, SentinelNotSupported)
  /\ ~ Includes(document.content, SentinelMinimalText)
  /\ Len(Trim(document.content)) >= MinContentLength

\* --------------------------------------------------------------- matcher

ExactReason == "Exact text match"

\* A match as the search makes it: no replacement and no approval yet.
NewMatch(id, originalText, context, position, line, relevance, reason) ==
  [id |-> id, originalText |-> originalText, context |-> context,
   position |-> position, line |-> line, selected |-> TRUE,
   relevance |-> relevance, reason |-> reason,
   suggestedReplacement |-> None, contextualReplacement |-> None,
   approved |-> "undefined"]

RECURSIVE ProcessAiMatchesAnyRelevance(_, _, _)
\* ProcessAiMatches without the relevance test.
ProcessAiMatchesAnyRelevance(document, aiMatches, matches) ==
  IF aiMatches = <<>> THEN [threw |-> FALSE, matches |-> matches]
  ELSE LET aiMatch == Head(aiMatches)
           position == IndexOf(document.content, aiMatch.text, 0)
           lineNumber ==
             SplitLinesLength(Substring(document.content, 0, position))
       IN IF aiMatch.kind = "null" THEN [threw |-> TRUE, matches |-> matches]
          ELSE IF position # -1
          THEN ProcessAiMatchesAnyRelevance(document, Tail(aiMatches),
                 Append(matches,
                   NewMatch(<<"ai_match", Len(matches)>>, aiMatch.text,
                            aiMatch.context, position, lineNumber,
                            aiMatch.relevance, aiMatch.reason)))
          ELSE ProcessAiMatchesAnyRelevance(document, Tail(aiMatches), matches)

RECURSIVE ProcessAiMatchesKeepsMissing(_, _, _)
\* ProcessAiMatches without the test of position.
ProcessAiMatchesKeepsMissing(document, aiMatches, matches) ==
  IF aiMatches = <<>> THEN [threw |-> FALSE, matches |-> matches]
  ELSE LET aiMatch == Head(aiMatches)
           position == IndexOf(document.content, aiMatch.text, 0)
           lineNumber ==
             SplitLinesLength(Substring(document.content, 0, position))
       IN IF aiMatch.kind = "null" THEN [threw |-> TRUE, matches |-> matches]
          ELSE IF aiMatch.relevance >= RelevanceThreshold
          THEN ProcessAiMatchesKeepsMissing(document, Tail(aiMatches),
                 Append(matches,
                   NewMatch(<<"ai_match", Len(matches)>>, aiMatch.text,
                            aiMatch.context, position, lineNumber,
                            aiMatch.relevance, aiMatch.reason)))
          ELSE ProcessAiMatchesKeepsMissing(document, Tail(aiMatches), matches)

RECURSIVE ProcessAiMatches(_, _, _)
\* The loop over the delegate's candidates.  A null element makes
\* aiMatch.relevance throw a TypeError, which leaves the try block.
ProcessAiMatches(document, aiMatches, matches) ==
  IF aiMatches = <<>> THEN [threw |-> FALSE, matches |-> matches]
  ELSE LET aiMatch == Head(aiMatches)
           position == IndexOf(document.content, aiMatch.text, 0)
           lineNumber ==
             SplitLinesLength(Substring(document.content, 0, position))
       IN IF aiMatch.kind = "null" THEN [threw |-> TRUE, matches |-> matches]
          ELSE IF aiMatch.relevance >= RelevanceThreshold /\ position # -1
          THEN ProcessAiMatches(document, Tail(aiMatches),
                 Append(matches,
                   NewMatch(<<"ai_match", Len(matches)>>, aiMatch.text,
                            aiMatch.context, position, lineNumber,
                            aiMatch.relevance, aiMatch.reason)))
          ELSE ProcessAiMatches(document, Tail(aiMatches), matches)

RECURSIVE SimpleScanOverlapping(_, _, _, _)
\* SimpleScan advancing the cursor by one code unit instead of the length
\* of the query.
SimpleScanOverlapping(document, searchTerm, index, matches) ==
  LET content == ToLowerCase(document.content)
      searchLower == ToLowerCase(searchTerm)
      found == IndexOf(content, searchLower, index)
      contextStart == Max(0, found - ContextRadius)
      contextEnd ==
        Min(Len(content), found + Len(searchTerm) + ContextRadius)
      context == Substring(document.content, contextStart, contextEnd)
      lineNumber ==
        SplitLinesLength(Substring(document.content, 0, found))
  IN IF found = -1 THEN matches
     ELSE SimpleScanOverlapping(document, searchTerm, found + 1,
            Append(matches,
              NewMatch(<<"simple_match", Len(matches)>>,
                       Substring(document.content, found,
                                 found + Len(searchTerm)),
                       context, found, lineNumber,
                       ExactRelevance, ExactReason)))

RECURSIVE SimpleScan(_, _, _, _)
\* The literal scan inside the try block, run when no candidate was kept.
SimpleScan(document, searchTerm, index, matches) ==
  LET content == ToLowerCase(document.content)
      searchLower == ToLowerCase(searchTerm)
      found == IndexOf(content, searchLower, index)
      contextStart == Max(0, found - ContextRadius)
      contextEnd ==
        Min(Len(content), found + Len(searchTerm) + ContextRadius)
      context == Substring(document.content, contextStart, contextEnd)
      lineNumber ==
        SplitLinesLength(Substring(document.content, 0, found))
  IN IF found = -1 THEN matches
     ELSE SimpleScan(document, searchTerm, found + Len(searchTerm),
            Append(matches,
              NewMatch(<<"simple_match", Len(matches)>>,
                       Substring(document.content, found,
                                 found + Len(searchTerm)),
                       context, found, lineNumber,
                       ExactRelevance, ExactReason)))

RECURSIVE FallbackScanOverlapping(_, _, _, _)
\* FallbackScan advancing the cursor by one code unit instead of the length
\* of the query.
FallbackScanOverlapping(document, searchTerm, index, matches) ==
  LET content == ToLowerCase(document.content)
      searchLower == ToLowerCase(searchTerm)
      found == IndexOf(content, searchLower, index)
      contextStart == Max(0, found - ContextRadius)
      contextEnd ==
        Min(Len(content), found + Len(searchTerm) + ContextRadius)
      context == Substring(document.content, contextStart, contextEnd)
      lineNumber ==
        SplitLinesLength(Substring(document.content, 0, found))
  IN IF found = -1 THEN matches
     ELSE FallbackScanOverlapping(document, searchTerm, found + 1,
            Append(matches,
              NewMatch(<<"fallback_match", Len(matches)>>,
                       Substring(document.content, found,
                                 found + Len(searchTerm)),
                       context, found, lineNumber,
                       ExactRelevance, ExactReason)))

RECURSIVE FallbackScan(_, _, _, _)
\* The literal scan of the catch block, run when the delegate call or the
\* processing of its answer threw.
FallbackScan(document, searchTerm, index, matches) ==
  LET content == ToLowerCase(document.content)
      searchLower == ToLowerCase(searchTerm)
      found == IndexOf(content, searchLower, index)
      contextStart == Max(0, found - ContextRadius)
      contextEnd ==
        Min(Len(content), found + Len(searchTerm) + ContextRadius)
      context == Substring(document.content, contextStart, contextEnd)
      lineNumber ==
        SplitLinesLength(Substring(document.content, 0, found))
  IN IF found = -1 THEN matches
     ELSE FallbackScan(document, searchTerm, found + Len(searchTerm),
            Append(matches,
              NewMatch(<<"fallback_match", Len(matches)>>,
                       Substring(document.content, found,
                                 found + Len(searchTerm)),
                       context, found, lineNumber,
                       ExactRelevance, ExactReason)))

RECURSIVE InsertByRelevance(_, _)
InsertByRelevance(sorted, m) ==
  IF sorted = <<>> THEN <<m>>
  ELSE IF m.relevance > Head(sorted).relevance
       THEN <<m>> \o sorted
       ELSE <<Head(sorted)>> \o InsertByRelevance(Tail(sorted), m)

RECURSIVE SortByRelevance(_)
\* matches.sort((a, b) => (b.relevance || 0) - (a.relevance || 0)):
\* descending relevance, stable.
SortByRelevance(matches) ==
  IF matches = <<>> THEN <<>>
  ELSE InsertByRelevance(
         SortByRelevance(SubSeq(matches, 1, Len(matches) - 1)),
         matches[Len(matches)])

\* aiResponse.match(/\[[\s\S]*\]/) and JSON.parse: the candidates decoded
\* from the answer, none when there is no array or it does not parse.
ParseAiMatches(response) ==
  IF response.json = "array" THEN response.candidates ELSE <<>>

\* SearchDocument without the literal scan after an answer of which no
\* candidate was kept.
SearchDocumentNoFallback(document, searchTerm, response) ==
  IF response.kind = "reject"
  THEN FallbackScan(document, searchTerm, 0, <<>>)
  ELSE LET aiMatches == ParseAiMatches(response)
           processed == ProcessAiMatches(document, aiMatches, <<>>)
       IN IF processed.threw
          THEN FallbackScan(document, searchTerm, 0, <<>>)
          ELSE SortByRelevance(processed.matches)

\* The body of the loop of handleSearch for one searchable document: the
\* matches pushed for it (none: no result is pushed).
SearchDocument(document, searchTerm, response) ==
  IF response.kind = "reject"
  THEN FallbackScan(document, searchTerm, 0, <<>>)
  ELSE LET aiMatches == ParseAiMatches(response)
           processed == ProcessAiMatches(document, aiMatches, <<>>)
       IN IF processed.threw
          THEN FallbackScan(document, searchTerm, 0, <<>>)
          ELSE IF processed.matches = <<>>
               THEN SortByRelevance(SimpleScan(document, searchTerm, 0, <<>>))
               ELSE SortByRelevance(processed.matches)

\* ------------------------------------------------------------------ state

VARIABLES
  documents,            \* App: the document list
  stored,               \* localStorage: the list last saved, and how many times one was saved
  searchTerm,           \* AISearchReplace: the query field
  replacementText,      \* the replacement field
  smartReplacement,     \* the Smart Replacement switch
  searchResults,        \* the results shown
  isSearching,
  searches,             \* the invocations of handleSearch awaiting the delegate, in the order they started
  lastSearch,           \* what produced searchResults: the query, per delegate call the document and the answer, and whether a search started later had ended before
  isGeneratingPreviews,
  processingStatus,     \* null, or {total, completed, current}
  generation,           \* the invocation of generateContextualReplacements awaiting the delegate
  reviewState,          \* {isReviewing, previews, currentPreviewIndex}
  lastGeneration,       \* what produced reviewState.previews: the inputs of the invocation and the delegate's answers
  isReplacing,
  appliedChanges,       \* what the last applyApprovedChanges did with each previewed match, in order; first revision: the lists handleReplace read, found listed and wrote back
  reviewOutcome,        \* how the review of the previews last generated ended
  applies,              \* how many times applyApprovedChanges has run
  notice,               \* the destructive toast the last handler showed, "none" when it showed none
  preserveContext,      \* the Preserve Context switch
  preserveTense,        \* the Preserve Grammar switch
  replace               \* first revision: the invocation of handleReplace awaiting the delegate

storeVars == <<documents, stored>>

formVars == <<searchTerm, replacementText, smartReplacement>>

searchVars == <<searchResults, isSearching, searches, lastSearch>>

generationVars == <<isGeneratingPreviews, processingStatus, generation>>

reviewVars == <<reviewState, lastGeneration>>

applyVars == <<isReplacing, appliedChanges, reviewOutcome, applies>>

replaceVars == <<preserveContext, preserveTense, replace>>

\* Every variable but notice.
stateVars ==
  <<storeVars, formVars, searchVars, generationVars, reviewVars, applyVars,
    replaceVars>>

vars ==
  <<documents, stored, searchTerm, replacementText, smartReplacement,
    searchResults, isSearching, searches, lastSearch, isGeneratingPreviews,
    processingStatus, generation, reviewState, lastGeneration, isReplacing,
    appliedChanges, reviewOutcome, applies, notice, preserveContext,
    preserveTense, replace>>

\* ----------------------------------------------------------------- inputs

Str_cat == <<"c", "a", "t">>

Str_dog == <<"d", "o", "g">>

Str_ox == <<"o", "x">>

Str_pup == <<"p", "u", "p">>

Content_cats ==
  <<"c", "a", "t", " ", "s", "a", "t", " ", "o", "n", " ", "t", "h", "e",
    " ", "c", "a", "t", " ", "m", "a", "t">>

Content_nap ==
  <<"o", "n", "e", " ", "c", "a", "t", " ", "n", "a", "p", "s", " ", "a",
    "l", "l", " ", "d", "a", "y", " ", "l", "o", "n", "g", ".">>

Content_dog ==
  <<"m", "y", " ", "d", "o", "g", " ", "s", "a", "w", " ", "a", " ", "C",
    "a", "t", " ", "n", "a", "p", ".">>

\* The fixed tail of a probe document: long enough to be searchable.
ProbeTail ==
  <<"a", " ", "C", "a", "t", " ", "s", "a", "t", " ", "o", "n", "\n", "t",
    "h", "e", " ", "c", "a", "t", " ", "m", "a", "t">>

HeadAlphabet == {"a", "U0130", " "}

RECURSIVE StringsUpTo(_, _)
\* The strings over an alphabet of at most n code units.
StringsUpTo(alphabet, n) ==
  IF n = 0 THEN {<<>>}
  ELSE LET shorter == StringsUpTo(alphabet, n - 1)
       IN shorter \cup {<<c>> \o s : c \in alphabet, s \in shorter}

Doc(id, content, status) ==
  [id |-> id, name |-> id, type |-> "txt", content |-> content,
   status |-> status]

ProbeDocuments ==
  {Doc("p", head \o ProbeTail, "ready") :
     head \in StringsUpTo(HeadAlphabet, MaxHead)}
  \cup {Doc("p", Str_cat, "ready"),
        Doc("p", ProbeTail, "error"),
        Doc("p", ProbeTail \o SentinelFailed, "ready")}

ProbeDocumentLists == {<<d>> : d \in ProbeDocuments}

ProbeTerms ==
  {Str_cat, <<"C", "A", "T">>, <<"a">>, <<"a", "a">>, <<"t", " ">>,
   <<"U0130">>, Str_dog, <<" ">>, <<>>}

Candidate(text, relevance) ==
  [kind |-> "object", text |-> text, context |-> <<"~">> \o text \o <<"~">>,
   relevance |-> relevance, reason |-> "related"]

NullCandidate ==
  [kind |-> "null", text |-> <<>>, context |-> <<>>, relevance |-> 0,
   reason |-> "null"]

ProbeCandidates ==
  {Candidate(Str_cat, 9), Candidate(<<"C", "a", "t">>, 5),
   Candidate(<<"a", "t">>, 6), Candidate(Str_dog, 10), NullCandidate}

RECURSIVE SeqsUpTo(_, _)
SeqsUpTo(S, n) ==
  IF n = 0 THEN {<<>>}
  ELSE LET shorter == SeqsUpTo(S, n - 1)
       IN shorter \cup {<<x>> \o s : x \in S, s \in shorter}

Rejected == [kind |-> "reject", json |-> "none", candidates |-> <<>>]

Answer(json, candidates) ==
  [kind |-> "text", json |-> json, candidates |-> candidates]

\* What the delegate may do with one call of a search: reject, or answer
\* with text that holds no array, a malformed array, or an array.
ResponsesOver(candidates) ==
  {Rejected, Answer("none", <<>>), Answer("malformed", <<>>)}
  \cup {Answer("array", c) : c \in SeqsUpTo(candidates, MaxCandidates)}

ProbeResponses == ResponsesOver(ProbeCandidates)

\* The inputs of the pipeline specification.
DocumentLists ==
  {<<Doc("d1", Content_cats, "ready")>>,
   <<Doc("d2", Content_nap, "ready"), Doc("d3", Content_dog, "ready")>>}

Terms == {Str_cat}

Replacements == {Str_dog}

EditTexts == {Str_ox, <<>>}

SearchResponses ==
  {Rejected,
   Answer("array", <<Candidate(Str_cat, 7), Candidate(<<"m", "a", "t">>, 9)>>),
   Answer("array", <<Candidate(<<"t", " ", "s">>, 9), Candidate(Str_cat, 9)>>)}

RejectedCall ==
  [kind |-> "reject", json |-> "none", replacement |-> None,
   explanation |-> None]

ObjectAnswer(json, replacement) ==
  [kind |-> "text", json |-> json, replacement |-> replacement,
   explanation |-> IF replacement = None THEN None ELSE Some("adjusted")]

\* What the delegate may do with one call of a preview generation: reject,
\* or answer with text that holds a malformed object, an object without
\* "replacement", or an object with one.
ReplacementResponses ==
  {RejectedCall, ObjectAnswer("malformed", None),
   ObjectAnswer("object", None), ObjectAnswer("object", Some(Str_pup))}

\* The inputs of the preview specification: three matches in two documents
\* with a document that is not searchable between them, replacement texts
\* with white space at their ends, and every kind of answer.
PreviewDocumentLists ==
  {<<Doc("d1", Content_cats, "ready"), Doc("u1", Content_cats, "error"),
     Doc("d2", Content_nap, "ready")>>}

PreviewReplacements == {Str_dog, <<" ", "o", "x">>, <<" ">>}

PreviewResponses == ReplacementResponses \cup {ObjectAnswer("none", None)}

\* The inputs of the search specification: documents that hold the query
\* and are not searchable, among documents that are.
Padding == <<" ", " ", " ", " ", " ", " ", " ", " ", " ", " ">>

SearchDocumentLists ==
  {<<Doc("u1", Content_cats, "error"),
     Doc("d2", Content_nap, "ready"),
     Doc("u2", Content_cats \o SentinelFailed, "ready"),
     Doc("u3", Padding \o Str_cat \o Padding, "ready"),
     Doc("d3", Content_dog, "ready")>>,
   <<Doc("u1", Content_cats \o SentinelNotSupported, "ready"),
     Doc("u2", SentinelMinimalText \o Content_cats, "ready"),
     Doc("u3", Str_cat, "processing")>>}

SearchTerms == {Str_cat, Str_dog}

OverlapResponses == {Rejected, Answer("array", <<Candidate(Str_cat, 9)>>)}

\* ------------------------------------------------------------------- Init

IdleReview ==
  [isReviewing |-> FALSE, previews |-> <<>>, currentPreviewIndex |-> 0]

InitWith(docs, term) ==
  /\ documents = docs
  /\ stored = [value |-> docs, writes |-> 0]
  /\ searchTerm = term
  /\ replacementText = <<>>
  /\ smartReplacement = TRUE
  /\ searchResults = <<>>
  /\ isSearching = FALSE
  /\ searches = <<>>
  /\ lastSearch = None
  /\ isGeneratingPreviews = FALSE
  /\ processingStatus = None
  /\ generation = None
  /\ reviewState = IdleReview
  /\ lastGeneration = None
  /\ isReplacing = FALSE
  /\ appliedChanges = <<>>
  /\ reviewOutcome = "none"
  /\ applies = 0
  /\ notice = "none"
  /\ preserveContext = TRUE
  /\ preserveTense = TRUE
  /\ replace = None

\* The handler shows no destructive toast.
NoNotice == notice' = "none"

Init == \E docs \in DocumentLists : InitWith(docs, <<>>)

\* ------------------------------------------------------------ form fields

\* onChange of the query field
SetSearchTerm(value) ==
  /\ searchTerm' = value
  /\ UNCHANGED <<replacementText, smartReplacement>>
  /\ UNCHANGED <<storeVars, searchVars, generationVars, reviewVars, applyVars>>
  /\ NoNotice /\ UNCHANGED replaceVars

\* onChange of the replacement field
SetReplacementText(value) ==
  /\ replacementText' = value
  /\ UNCHANGED <<searchTerm, smartReplacement>>
  /\ UNCHANGED <<storeVars, searchVars, generationVars, reviewVars, applyVars>>
  /\ NoNotice /\ UNCHANGED replaceVars

\* onCheckedChange of the Smart Replacement switch
SetSmartReplacement(value) ==
  /\ smartReplacement' = value
  /\ UNCHANGED <<searchTerm, replacementText>>
  /\ UNCHANGED <<storeVars, searchVars, generationVars, reviewVars, applyVars>>
  /\ NoNotice /\ UNCHANGED replaceVars

\* ----------------------------------------------------------- handleSearch

\* NextSearchable that takes the last searchable document from i on.
LastSearchable(docs, i) ==
  LET later == {j \in i..Len(docs) : Searchable(docs[j])}
  IN IF later = {} THEN 0
     ELSE CHOOSE j \in later : \A k \in later : k <= j

\* NextSearchable that skips no document.
NextDocument(docs, i) == IF i > Len(docs) THEN 0 ELSE i

RECURSIVE NextSearchable(_, _)
\* The index of the first document from i on that the loop does not skip,
\* 0 when there is none.
NextSearchable(docs, i) ==
  IF i > Len(docs) THEN 0
  ELSE IF Searchable(docs[i]) THEN i
  ELSE NextSearchable(docs, i + 1)

RemoveAt(a, i) == SubSeq(a, 1, i - 1) \o SubSeq(a, i + 1, Len(a))

\* setSearchResults(results) and the finally block.
FinishSearch(inv) ==
  /\ searchResults' = inv.results
  /\ isSearching' = FALSE
  /\ lastSearch' =
       Some([searchTerm |-> inv.searchTerm, replies |-> inv.replies,
             overtaken |-> inv.overtaken])

\* The invocations started before the s-th are marked: one started after
\* them has ended first.
Overtake(invs, s) ==
  [i \in DOMAIN invs |->
     IF i < s THEN [invs[i] EXCEPT !.overtaken = TRUE] ELSE invs[i]]

\* The invocations that await the delegate.
InFlight == Len(searches) + (IF generation = None THEN 0 ELSE 1)

\* handleSearch that clears the results before it validates.
HandleSearchClearsBeforeValidation ==
  IF Trim(searchTerm) = <<>> \/ Len(documents) = 0
  THEN /\ notice' = IF Trim(searchTerm) = <<>>
                    THEN "Search term required" ELSE "No documents"
       /\ searchResults' = <<>>
       /\ UNCHANGED <<isSearching, searches, lastSearch>>
       /\ UNCHANGED <<storeVars, formVars, generationVars, reviewVars,
                      applyVars, replaceVars>>
  ELSE LET first == NextSearchable(documents, 1)
           inv == [documents |-> documents, searchTerm |-> searchTerm,
                   index |-> first, results |-> <<>>, replies |-> <<>>,
                   overtaken |-> FALSE]
       IN /\ IF first = 0
             THEN FinishSearch(inv) /\ UNCHANGED searches
             ELSE /\ isSearching' = TRUE
                  /\ searchResults' = <<>>
                  /\ lastSearch' = None
                  /\ searches' = Append(searches, inv)
          /\ UNCHANGED <<storeVars, formVars, generationVars, reviewVars,
                         applyVars>>
          /\ NoNotice /\ UNCHANGED replaceVars

\* handleSearch up to its first await (or, with no searchable document, to
\* its end).
HandleSearch ==
  IF Trim(searchTerm) = <<>>
  THEN notice' = "Search term required" /\ UNCHANGED stateVars
  ELSE IF Len(documents) = 0
  THEN notice' = "No documents" /\ UNCHANGED stateVars
  ELSE LET first == NextSearchable(documents, 1)
           inv == [documents |-> documents, searchTerm |-> searchTerm,
                   index |-> first, results |-> <<>>, replies |-> <<>>,
                   overtaken |-> FALSE]
       IN /\ IF first = 0
             THEN FinishSearch(inv) /\ UNCHANGED searches
             ELSE /\ isSearching' = TRUE
                  /\ searchResults' = <<>>
                  /\ lastSearch' = None
                  /\ searches' = Append(searches, inv)
          /\ UNCHANGED <<storeVars, formVars, generationVars, reviewVars,
                         applyVars>>
          /\ NoNotice /\ UNCHANGED replaceVars

\* DelegateSearchReply in which the invocation that ends takes the others
\* with it.
DelegateSearchReplyCancelsOthers(s, response) ==
  /\ s \in DOMAIN searches
  /\ LET inv == searches[s]
         document == inv.documents[inv.index]
         matches == SearchDocument(document, inv.searchTerm, response)
         results ==
           IF Len(matches) > 0
           THEN Append(inv.results,
                  [documentId |-> document.id, documentName |-> document.name,
                   matches |-> matches])
           ELSE inv.results
         next == NextSearchable(inv.documents, inv.index + 1)
         after == [inv EXCEPT !.index = next, !.results = results,
                     !.replies = Append(inv.replies,
                       [document |-> document, response |-> response])]
     IN IF next = 0
        THEN FinishSearch(after) /\ searches' = <<>>
        ELSE /\ searches' = [searches EXCEPT ![s] = after]
             /\ UNCHANGED <<searchResults, isSearching, lastSearch>>
  /\ UNCHANGED <<storeVars, formVars, generationVars, reviewVars, applyVars>>
  /\ NoNotice /\ UNCHANGED replaceVars

\* The delegate settles the call the s-th invocation awaits, and the
\* invocation runs on to its next await or to its end.
DelegateSearchReply(s, response) ==
  /\ s \in DOMAIN searches
  /\ LET inv == searches[s]
         document == inv.documents[inv.index]
         matches == SearchDocument(document, inv.searchTerm, response)
         results ==
           IF Len(matches) > 0
           THEN Append(inv.results,
                  [documentId |-> document.id, documentName |-> document.name,
                   matches |-> matches])
           ELSE inv.results
         next == NextSearchable(inv.documents, inv.index + 1)
         after == [inv EXCEPT !.index = next, !.results = results,
                     !.replies = Append(inv.replies,
                       [document |-> document, response |-> response])]
     IN IF next = 0
        THEN FinishSearch(after) /\ searches' = RemoveAt(Overtake(searches, s), s)
        ELSE /\ searches' = [searches EXCEPT ![s] = after]
             /\ UNCHANGED <<searchResults, isSearching, lastSearch>>
  /\ UNCHANGED <<storeVars, formVars, generationVars, reviewVars, applyVars>>
  /\ NoNotice /\ UNCHANGED replaceVars

\* -------------------------------------------------------------- selection

\* toggleMatchSelection(resultIndex, matchId); resultIndex counts from 0.
ToggleMatchSelection(resultIndex, matchId) ==
  /\ resultIndex + 1 \in DOMAIN searchResults
  /\ \E k \in DOMAIN searchResults[resultIndex + 1].matches :
       searchResults[resultIndex + 1].matches[k].id = matchId
  /\ searchResults' =
       [i \in DOMAIN searchResults |->
          IF i = resultIndex + 1
          THEN [searchResults[i] EXCEPT !.matches =
                  [k \in DOMAIN searchResults[i].matches |->
                     IF searchResults[i].matches[k].id = matchId
                     THEN [searchResults[i].matches[k] EXCEPT
                             !.selected = ~ searchResults[i].matches[k].selected]
                     ELSE searchResults[i].matches[k]]]
          ELSE searchResults[i]]
  /\ UNCHANGED <<isSearching, searches, lastSearch>>
  /\ UNCHANGED <<storeVars, formVars, generationVars, reviewVars, applyVars>>
  /\ NoNotice /\ UNCHANGED replaceVars

\* toggleAllMatches(resultIndex, selected)
ToggleAllMatches(resultIndex, selected) ==
  /\ resultIndex + 1 \in DOMAIN searchResults
  /\ searchResults' =
       [i \in DOMAIN searchResults |->
          IF i = resultIndex + 1
          THEN [searchResults[i] EXCEPT !.matches =
                  [k \in DOMAIN searchResults[i].matches |->
                     [searchResults[i].matches[k] EXCEPT !.selected = selected]]]
          ELSE searchResults[i]]
  /\ UNCHANGED <<isSearching, searches, lastSearch>>
  /\ UNCHANGED <<storeVars, formVars, generationVars, reviewVars, applyVars>>
  /\ NoNotice /\ UNCHANGED replaceVars

\* --------------------------------------- generateContextualReplacements

\* SelectedMatches without the filter.
SelectedMatchesUnfiltered(result) == result.matches

\* result.matches.filter(match => match.selected)
SelectedMatches(result) == SelectSeq(result.matches, LAMBDA m : m.selected)

RECURSIVE CountSelected(_)
\* searchResults.flatMap(...).length
CountSelected(results) ==
  IF results = <<>> THEN 0
  ELSE Len(SelectedMatches(Head(results))) + CountSelected(Tail(results))

\* documents.find(doc => doc.id === id): its index, 0 when there is none.
FindDocument(docs, id) ==
  IF \E i \in DOMAIN docs : docs[i].id = id
  THEN CHOOSE i \in DOMAIN docs :
         docs[i].id = id /\ \A j \in DOMAIN docs : docs[j].id = id => i <= j
  ELSE 0

\* match.contextualReplacement || match.suggestedReplacement || replacementText
ReplacementOf(match, text) ==
  IF Truthy(match.contextualReplacement) THEN match.contextualReplacement[1]
  ELSE IF Truthy(match.suggestedReplacement)
       THEN match.suggestedReplacement[1]
       ELSE text

\* content.substring(0, position) + replacement
\*   + content.substring(position + originalText.length)
Splice(content, match, text) ==
  Substring(content, 0, match.position)
    \o ReplacementOf(match, text)
    \o SubstringFrom(content, match.position + Len(match.originalText))

RECURSIVE ApplySplices(_, _, _)
\* The splices of a list of matches, in the order of the list.
ApplySplices(content, order, text) ==
  IF order = <<>> THEN content
  ELSE ApplySplices(Splice(content, Head(order), text), Tail(order), text)

\* Enhanced with the contextual replacement trimmed.
EnhancedTrimmed(match, suggested, contextual, reason) ==
  [match EXCEPT !.suggestedReplacement = suggested,
                !.contextualReplacement =
                  IF contextual = None THEN None ELSE Some(Trim(contextual[1])),
                !.reason = reason]

\* {...match, suggestedReplacement, contextualReplacement, reason}
Enhanced(match, suggested, contextual, reason) ==
  [match EXCEPT !.suggestedReplacement = suggested,
                !.contextualReplacement = contextual,
                !.reason = reason]

\* previews.push(...): the preview content is spliced in the order of
\* enhancedMatches.reverse(), and the matches are reversed back.
MakePreview(result, document, enhancedMatches, text) ==
  [documentId |-> result.documentId, documentName |-> result.documentName,
   matches |-> Reverse(Reverse(enhancedMatches)),
   previewContent |->
     ApplySplices(document.content, Reverse(enhancedMatches), text)]

RECURSIVE RunGeneration(_)
\* The loops of generateContextualReplacements from result r, match m on,
\* up to the next await (done FALSE) or to the end of the loops (done TRUE).
RunGeneration(g) ==
  IF g.r > Len(g.searchResults) THEN [done |-> TRUE, g |-> g]
  ELSE LET result == g.searchResults[g.r]
           selectedMatchesForDoc == SelectedMatches(result)
           d == FindDocument(g.documents, result.documentId)
           nextResult ==
             [g EXCEPT !.r = g.r + 1, !.m = 1, !.enhancedMatches = <<>>]
       IN IF Len(selectedMatchesForDoc) = 0 \/ d = 0
          THEN RunGeneration(nextResult)
          ELSE IF g.m > Len(selectedMatchesForDoc)
          THEN RunGeneration(
                 [nextResult EXCEPT !.previews =
                    Append(g.previews,
                      MakePreview(result, g.documents[d], g.enhancedMatches,
                                  g.replacementText))])
          ELSE LET entered ==
                     IF g.m = 1
                     THEN [g EXCEPT !.status.current =
                                      Some(g.documents[d].name)]
                     ELSE g
               IN IF g.smartReplacement
                  THEN [done |-> FALSE, g |-> entered]
                  ELSE RunGeneration(
                         [entered EXCEPT
                            !.enhancedMatches =
                              Append(@, Enhanced(selectedMatchesForDoc[g.m],
                                                 Some(g.replacementText),
                                                 Some(g.replacementText),
                                                 selectedMatchesForDoc[g.m].reason)),
                            !.m = g.m + 1,
                            !.status.completed = @ + 1])

\* SettleGeneration without setProcessingStatus(null) in the finally block.
SettleGenerationKeepsStatus(run) ==
  IF run.done
  THEN /\ reviewState' =
            [isReviewing |-> TRUE, previews |-> run.g.previews,
             currentPreviewIndex |-> 0]
       /\ lastGeneration' =
            Some([searchResults |-> run.g.searchResults,
                  documents |-> run.g.documents,
                  replacementText |-> run.g.replacementText,
                  smartReplacement |-> run.g.smartReplacement,
                  replies |-> run.g.replies])
       /\ isGeneratingPreviews' = FALSE
       /\ processingStatus' = Some(run.g.status)
       /\ generation' = None
  ELSE /\ generation' = Some(run.g)
       /\ isGeneratingPreviews' = TRUE
       /\ processingStatus' = Some(run.g.status)
       /\ UNCHANGED reviewVars

\* setReviewState({isReviewing: true, previews, ...}) and the finally block,
\* or the state while the invocation awaits the delegate.
SettleGeneration(run) ==
  IF run.done
  THEN /\ reviewState' =
            [isReviewing |-> TRUE, previews |-> run.g.previews,
             currentPreviewIndex |-> 0]
       /\ lastGeneration' =
            Some([searchResults |-> run.g.searchResults,
                  documents |-> run.g.documents,
                  replacementText |-> run.g.replacementText,
                  smartReplacement |-> run.g.smartReplacement,
                  replies |-> run.g.replies])
       /\ isGeneratingPreviews' = FALSE
       /\ processingStatus' = None
       /\ generation' = None
  ELSE /\ generation' = Some(run.g)
       /\ isGeneratingPreviews' = TRUE
       /\ processingStatus' = Some(run.g.status)
       /\ UNCHANGED reviewVars

\* generateContextualReplacements up to its first await or to its end. The
\* Preview button is disabled while isGeneratingPreviews, and also when
\* nothing is selected or the replacement text is blank: the handler's own
\* tests of those two are modelled all the same.
GenerateContextualReplacements ==
  /\ ~ isGeneratingPreviews
  /\ IF Trim(replacementText) = <<>>
     THEN notice' = "Replacement text required" /\ UNCHANGED stateVars
     ELSE IF CountSelected(searchResults) = 0
     THEN notice' = "No matches selected" /\ UNCHANGED stateVars
     ELSE /\ SettleGeneration(RunGeneration(
               [searchResults |-> searchResults, documents |-> documents,
                replacementText |-> replacementText,
                smartReplacement |-> smartReplacement,
                r |-> 1, m |-> 1, enhancedMatches |-> <<>>,
                previews |-> <<>>, replies |-> <<>>,
                status |-> [total |-> CountSelected(searchResults),
                            completed |-> 0, errors |-> <<>>,
                            current |-> None]]))
          /\ reviewOutcome' = "none"
          /\ UNCHANGED <<isReplacing, appliedChanges, applies>>
          /\ UNCHANGED <<storeVars, formVars, searchVars>>
          /\ NoNotice /\ UNCHANGED replaceVars

\* DelegateReplacementReply that leaves out the match of a call that
\* rejected.
DelegateReplacementReplyDropsRejected(response) ==
  /\ generation # None
  /\ LET g == generation[1]
         match == SelectedMatches(g.searchResults[g.r])[g.m]
         literal == Enhanced(match, Some(g.replacementText),
                             Some(g.replacementText), match.reason)
         enhanced ==
           IF response.kind = "text" /\ response.json = "object"
           THEN Enhanced(match, Some(g.replacementText), response.replacement,
                         IF response.explanation # None
                         THEN response.explanation[1] ELSE match.reason)
           ELSE literal
     IN SettleGeneration(RunGeneration(
          [g EXCEPT !.enhancedMatches =
                      IF response.kind = "reject" THEN @ ELSE Append(@, enhanced),
                    !.m = g.m + 1,
                    !.replies = Append(@, [documentId |-> g.searchResults[g.r].documentId,
                                           matchId |-> match.id,
                                           response |-> response])]))
  /\ UNCHANGED <<storeVars, formVars, searchVars, applyVars>>
  /\ NoNotice /\ UNCHANGED replaceVars

\* The delegate settles the call the invocation awaits for one match, and
\* the invocation runs on to its next await or to its end.
DelegateReplacementReply(response) ==
  /\ generation # None
  /\ LET g == generation[1]
         match == SelectedMatches(g.searchResults[g.r])[g.m]
         literal == Enhanced(match, Some(g.replacementText),
                             Some(g.replacementText), match.reason)
         enhanced ==
           IF response.kind = "text" /\ response.json = "object"
           THEN Enhanced(match, Some(g.replacementText), response.replacement,
                         IF response.explanation # None
                         THEN response.explanation[1] ELSE match.reason)
           ELSE literal
         completed ==
           IF response.kind = "reject" THEN g.status.completed
           ELSE g.status.completed + 1
     IN SettleGeneration(RunGeneration(
          [g EXCEPT !.enhancedMatches = Append(@, enhanced),
                    !.m = g.m + 1,
                    !.status.completed = completed,
                    !.replies = Append(@, [documentId |-> g.searchResults[g.r].documentId,
                                           matchId |-> match.id,
                                           response |-> response])]))
  /\ UNCHANGED <<storeVars, formVars, searchVars, applyVars>>
  /\ NoNotice /\ UNCHANGED replaceVars

\* ----------------------------------------------------------------- review

\* The review dialog is on screen.
ReviewShown == reviewState.isReviewing /\ Len(reviewState.previews) > 0

CurrentPreview == reviewState.previews[reviewState.currentPreviewIndex + 1]

MatchIds(matches) == {matches[k].id : k \in DOMAIN matches}

\* MapMatch without the test of the document.
MapMatchAnyDocument(previews, documentId, matchId, field, value) ==
  [i \in DOMAIN previews |->
     [previews[i] EXCEPT !.matches =
        [k \in DOMAIN previews[i].matches |->
           IF previews[i].matches[k].id = matchId
           THEN [previews[i].matches[k] EXCEPT ![field] = value]
           ELSE previews[i].matches[k]]]]

\* previews.map(...) of handleApprove, handleReject and handleEditReplacement:
\* the match of the document gets the field set.
MapMatch(previews, documentId, matchId, field, value) ==
  [i \in DOMAIN previews |->
     IF previews[i].documentId = documentId
     THEN [previews[i] EXCEPT !.matches =
             [k \in DOMAIN previews[i].matches |->
                IF previews[i].matches[k].id = matchId
                THEN [previews[i].matches[k] EXCEPT ![field] = value]
                ELSE previews[i].matches[k]]]
     ELSE previews[i]]

\* previews.map(...) of handleApproveAll and handleRejectAll
MapAllMatches(previews, approved) ==
  [i \in DOMAIN previews |->
     [previews[i] EXCEPT !.matches =
        [k \in DOMAIN previews[i].matches |->
           [previews[i].matches[k] EXCEPT !.approved = approved]]]]

ReviewFrame ==
  /\ UNCHANGED lastGeneration
  /\ UNCHANGED <<storeVars, formVars, searchVars, generationVars, applyVars>>
  /\ NoNotice /\ UNCHANGED replaceVars

HandleApprove(documentId, matchId) ==
  /\ ReviewShown
  /\ documentId = CurrentPreview.documentId
  /\ matchId \in MatchIds(CurrentPreview.matches)
  /\ reviewState' =
       [reviewState EXCEPT !.previews =
          MapMatch(@, documentId, matchId, "approved", "true")]
  /\ ReviewFrame

HandleReject(documentId, matchId) ==
  /\ ReviewShown
  /\ documentId = CurrentPreview.documentId
  /\ matchId \in MatchIds(CurrentPreview.matches)
  /\ reviewState' =
       [reviewState EXCEPT !.previews =
          MapMatch(@, documentId, matchId, "approved", "false")]
  /\ ReviewFrame

\* handleEditReplacement that also makes the match undecided again.
HandleEditReplacementResetsApproval(documentId, matchId, newReplacement) ==
  /\ ReviewShown
  /\ documentId = CurrentPreview.documentId
  /\ matchId \in MatchIds(CurrentPreview.matches)
  /\ reviewState' =
       [reviewState EXCEPT !.previews =
          MapMatch(MapMatch(@, documentId, matchId, "contextualReplacement",
                            Some(newReplacement)),
                   documentId, matchId, "approved", "undefined")]
  /\ ReviewFrame

HandleEditReplacement(documentId, matchId, newReplacement) ==
  /\ ReviewShown
  /\ documentId = CurrentPreview.documentId
  /\ matchId \in MatchIds(CurrentPreview.matches)
  /\ reviewState' =
       [reviewState EXCEPT !.previews =
          MapMatch(@, documentId, matchId, "contextualReplacement",
                   Some(newReplacement))]
  /\ ReviewFrame

HandleApproveAll ==
  /\ ReviewShown
  /\ reviewState' =
       [reviewState EXCEPT !.previews = MapAllMatches(@, "true")]
  /\ ReviewFrame

HandleRejectAll ==
  /\ ReviewShown
  /\ reviewState' =
       [reviewState EXCEPT !.previews = MapAllMatches(@, "false")]
  /\ ReviewFrame

\* onIndexChange, from the Previous and the Next button
OnIndexChange(index) ==
  /\ ReviewShown
  /\ \/ /\ reviewState.currentPreviewIndex # 0
        /\ index = Max(0, reviewState.currentPreviewIndex - 1)
     \/ /\ reviewState.currentPreviewIndex # Len(reviewState.previews) - 1
        /\ index = Min(Len(reviewState.previews) - 1,
                       reviewState.currentPreviewIndex + 1)
  /\ reviewState' = [reviewState EXCEPT !.currentPreviewIndex = index]
  /\ ReviewFrame

\* ---------------------------------------------------- applyApprovedChanges

\* ApprovedMatches with a filter that keeps the undecided matches too.
ApprovedMatchesOrPending(preview) ==
  SelectSeq(preview.matches, LAMBDA m : m.approved # "false")

\* ApprovedMatches that keeps the first approved match alone.
ApprovedMatchesFirstOnly(preview) ==
  LET approvedMatches == SelectSeq(preview.matches, LAMBDA m : m.approved = "true")
  IN IF approvedMatches = <<>> THEN <<>> ELSE <<Head(approvedMatches)>>

\* preview.matches.filter(match => match.approved === true)
ApprovedMatches(preview) ==
  SelectSeq(preview.matches, LAMBDA m : m.approved = "true")

RECURSIVE CountApproved(_)
CountApproved(previews) ==
  IF previews = <<>> THEN 0
  ELSE Len(ApprovedMatches(Head(previews))) + CountApproved(Tail(previews))

\* What applyApprovedChanges did with one match of a preview.
LogEntry(documentId, match, spliced, replacement, before, after) ==
  [documentId |-> documentId, matchId |-> match.id,
   position |-> match.position, originalText |-> match.originalText,
   approved |-> match.approved, spliced |-> spliced,
   replacement |-> replacement, before |-> before, after |-> after]

\* The matches applyApprovedChanges passes over.
PassedOver(documentId, matches) ==
  [k \in DOMAIN matches |->
     LogEntry(documentId, matches[k], FALSE, <<>>, <<>>, <<>>)]

RECURSIVE SpliceApproved(_, _, _, _, _)
\* for (const match of approvedMatches.reverse()): the content after the
\* splices, and the splices made.
SpliceApproved(content, order, documentId, text, log) ==
  IF order = <<>> THEN [content |-> content, log |-> log]
  ELSE LET after == Splice(content, Head(order), text)
       IN SpliceApproved(after, Tail(order), documentId, text,
            Append(log, LogEntry(documentId, Head(order), TRUE,
                                 ReplacementOf(Head(order), text),
                                 content, after)))

RECURSIVE ApplyPreviews(_, _, _, _)
\* for (const preview of reviewState.previews)
ApplyPreviews(previews, docs, text, log) ==
  IF previews = <<>> THEN [documents |-> docs, log |-> log]
  ELSE LET preview == Head(previews)
           approvedMatches == ApprovedMatches(preview)
           d == FindDocument(docs, preview.documentId)
       IN IF Len(approvedMatches) = 0 \/ d = 0
          THEN ApplyPreviews(Tail(previews), docs, text,
                 log \o PassedOver(preview.documentId, preview.matches))
          ELSE LET spliced ==
                     SpliceApproved(docs[d].content, Reverse(approvedMatches),
                       preview.documentId, text,
                       log \o PassedOver(preview.documentId,
                                SelectSeq(preview.matches,
                                  LAMBDA m : m.approved # "true")))
               IN ApplyPreviews(Tail(previews),
                    [docs EXCEPT ![d].content = spliced.content],
                    text, spliced.log)

\* localStorage.setItem(`documents_${user.id}`, ...), in a store that takes
\* the write.
SaveDocuments(updated) ==
  stored' = [value |-> updated, writes |-> stored.writes + 1]

\* A list captured by an invocation in flight shares its Document objects
\* with the list of App: document.content = newContent shows through it.
Aliased(captured, updated) ==
  [i \in DOMAIN captured |->
     IF FindDocument(updated, captured[i].id) # 0
     THEN updated[FindDocument(updated, captured[i].id)]
     ELSE captured[i]]

ApplyApprovedChanges ==
  LET applied == ApplyPreviews(reviewState.previews, documents,
                               replacementText, <<>>)
  IN /\ documents' = applied.documents
     /\ SaveDocuments(applied.documents)
     /\ appliedChanges' = applied.log
     /\ reviewOutcome' = "applied"
     /\ applies' = applies + 1
     /\ isReplacing' = FALSE
     /\ searchResults' = <<>>
     /\ lastSearch' = None
     /\ searchTerm' = <<>>
     /\ replacementText' = <<>>
     /\ reviewState' = IdleReview
     /\ lastGeneration' = None
     /\ searches' =
          [s \in DOMAIN searches |->
             [searches[s] EXCEPT !.documents = Aliased(@, applied.documents)]]
     /\ generation' =
          IF generation = None THEN None
          ELSE Some([generation[1] EXCEPT
                       !.documents = Aliased(@, applied.documents)])
     /\ UNCHANGED <<smartReplacement, isSearching, isGeneratingPreviews,
                    processingStatus>>
     /\ NoNotice /\ UNCHANGED replaceVars

\* handleCloseReview that clears the flag alone when nothing is approved.
HandleCloseReviewKeepsPreviews ==
  /\ ReviewShown
  /\ IF CountApproved(reviewState.previews) > 0
     THEN ApplyApprovedChanges
     ELSE /\ reviewState' = [reviewState EXCEPT !.isReviewing = FALSE]
          /\ lastGeneration' = None
          /\ reviewOutcome' = "discarded"
          /\ UNCHANGED <<isReplacing, appliedChanges, applies>>
          /\ UNCHANGED <<storeVars, formVars, searchVars, generationVars>>
          /\ NoNotice /\ UNCHANGED replaceVars

\* handleCloseReview without the test of approvedCount.
HandleCloseReviewAlwaysApplies == ReviewShown /\ ApplyApprovedChanges

\* handleCloseReview, from the X and the Apply Changes button
HandleCloseReview ==
  /\ ReviewShown
  /\ IF CountApproved(reviewState.previews) > 0
     THEN ApplyApprovedChanges
     ELSE /\ reviewState' = IdleReview
          /\ lastGeneration' = None
          /\ reviewOutcome' = "discarded"
          /\ UNCHANGED <<isReplacing, appliedChanges, applies>>
          /\ UNCHANGED <<storeVars, formVars, searchVars, generationVars>>
          /\ NoNotice /\ UNCHANGED replaceVars

\* -------------------------------------------------------------------- App

\* handleDocumentDelete(documentId)
HandleDocumentDelete(documentId) ==
  /\ \E i \in DOMAIN documents : documents[i].id = documentId
  /\ documents' = SelectSeq(documents, LAMBDA doc : doc.id # documentId)
  /\ SaveDocuments(SelectSeq(documents, LAMBDA doc : doc.id # documentId))
  /\ UNCHANGED <<formVars, searchVars, generationVars, reviewVars, applyVars>>
  /\ NoNotice /\ UNCHANGED replaceVars

\* handleDocumentsUploaded(newDocuments)
HandleDocumentsUploaded(newDocuments) ==
  /\ documents' = documents \o newDocuments
  /\ SaveDocuments(documents \o newDocuments)
  /\ UNCHANGED <<formVars, searchVars, generationVars, reviewVars, applyVars>>
  /\ NoNotice /\ UNCHANGED replaceVars

\* handleDocumentUpdated(updatedDocument), with the object handleSaveEdit of
\* DocumentPreview builds: {...document, content: editedContent}. The list
\* of App gets a new object, so an invocation of handleReplace in flight no
\* longer shares the document with it.
HandleDocumentUpdated(documentId, editedContent) ==
  /\ Trim(editedContent) # <<>>
  /\ \E i \in DOMAIN documents : documents[i].id = documentId
  /\ LET updated ==
           [i \in DOMAIN documents |->
              IF documents[i].id = documentId
              THEN [documents[i] EXCEPT !.content = editedContent]
              ELSE documents[i]]
     IN /\ documents' = updated
        /\ SaveDocuments(updated)
  /\ replace' =
       IF replace = None THEN None
       ELSE Some([replace[1] EXCEPT !.shared = @ \ {documentId}])
  /\ UNCHANGED <<preserveContext, preserveTense>>
  /\ UNCHANGED <<formVars, searchVars, generationVars, reviewVars, applyVars>>
  /\ NoNotice

\* onClick of the "Clear All Documents" button, which is rendered while the
\* list is not empty. Once the user confirms, the handler evaluates
\* onDocumentsUpdated([]); App declares handleDocumentsUpdated and no
\* onDocumentsUpdated, so the call throws a ReferenceError and neither it nor
\* the setSelectedDocument(null) that follows it has any effect.
ClearAllDocuments(confirmed) ==
  /\ documents # <<>>
  /\ notice' = IF confirmed THEN "ReferenceError" ELSE "none"
  /\ UNCHANGED stateVars

\* --------------------------------------------------------- first revision

\* onCheckedChange of the Preserve Context switch
SetPreserveContext(value) ==
  /\ preserveContext' = value
  /\ UNCHANGED <<preserveTense, replace>>
  /\ UNCHANGED <<storeVars, formVars, searchVars, generationVars, reviewVars,
                 applyVars>>
  /\ NoNotice

\* onCheckedChange of the Preserve Grammar switch
SetPreserveTense(value) ==
  /\ preserveTense' = value
  /\ UNCHANGED <<preserveContext, replace>>
  /\ UNCHANGED <<storeVars, formVars, searchVars, generationVars, reviewVars,
                 applyVars>>
  /\ NoNotice

RECURSIVE FirstScan(_, _, _, _)
\* The scan of handleSearch of the first revision over one document.
FirstScan(document, term, index, matches) ==
  LET content == ToLowerCase(document.content)
      searchLower == ToLowerCase(term)
      found == IndexOf(content, searchLower, index)
      contextStart == Max(0, found - FirstContextRadius)
      contextEnd == Min(Len(content), found + Len(term) + FirstContextRadius)
  IN IF found = -1 THEN matches
     ELSE FirstScan(document, term, found + Len(term),
            Append(matches,
              [id |-> <<"match", Len(matches)>>,
               originalText |->
                 Substring(document.content, found, found + Len(term)),
               context |->
                 Substring(document.content, contextStart, contextEnd),
               position |-> found,
               line |->
                 SplitLinesLength(Substring(document.content, 0, found)),
               selected |-> TRUE]))

RECURSIVE FirstSearchResults(_, _)
\* for (const document of documents) of the first revision
FirstSearchResults(docs, term) ==
  IF docs = <<>> THEN <<>>
  ELSE LET matches ==
             IF Searchable(Head(docs))
             THEN FirstScan(Head(docs), term, 0, <<>>)
             ELSE <<>>
       IN (IF Len(matches) > 0
           THEN <<[documentId |-> Head(docs).id,
                   documentName |-> Head(docs).name, matches |-> matches]>>
           ELSE <<>>)
          \o FirstSearchResults(Tail(docs), term)

\* handleSearch of the first revision: it awaits nothing.
FirstHandleSearch ==
  IF Trim(searchTerm) = <<>>
  THEN notice' = "Search term required" /\ UNCHANGED stateVars
  ELSE IF Len(documents) = 0
  THEN notice' = "No documents" /\ UNCHANGED stateVars
  ELSE /\ searchResults' = FirstSearchResults(documents, searchTerm)
       /\ isSearching' = FALSE
       /\ lastSearch' =
            Some([searchTerm |-> searchTerm, replies |-> <<>>,
                  overtaken |-> FALSE])
       /\ UNCHANGED searches
       /\ UNCHANGED <<storeVars, formVars, generationVars, reviewVars,
                      applyVars>>
       /\ NoNotice /\ UNCHANGED replaceVars

RECURSIVE SpliceTexts(_, _, _)
\* for (const match of selectedMatchesForDoc.reverse()): replacementText in
\* place of each match, in the order of the list.
SpliceTexts(content, order, text) ==
  IF order = <<>> THEN content
  ELSE SpliceTexts(
         Substring(content, 0, Head(order).position) \o text
           \o SubstringFrom(content,
                 Head(order).position + Len(Head(order).originalText)),
         Tail(order), text)

\* document.content = newContent and the count of the matches done, for the
\* document d of the result the invocation is at.
Replaced(g, d, newContent) ==
  [g EXCEPT !.documents[d].content = newContent,
            !.status.completed =
              @ + Len(SelectedMatches(g.searchResults[g.r])),
            !.r = g.r + 1]

RECURSIVE RunReplace(_)
\* The loop of handleReplace from result r on, up to the next await (done
\* FALSE) or to its end (done TRUE).
RunReplace(g) ==
  IF g.r > Len(g.searchResults) THEN [done |-> TRUE, g |-> g]
  ELSE LET result == g.searchResults[g.r]
           selectedMatchesForDoc == SelectedMatches(result)
           d == FindDocument(g.documents, result.documentId)
       IN IF Len(selectedMatchesForDoc) = 0 \/ d = 0
          THEN RunReplace([g EXCEPT !.r = g.r + 1])
          ELSE LET entered ==
                     [g EXCEPT !.status.current = Some(g.documents[d].name)]
               IN IF g.preserve
                  THEN [done |-> FALSE, g |-> entered]
                  ELSE RunReplace(
                         Replaced(entered, d,
                           SpliceTexts(g.documents[d].content,
                                       Reverse(selectedMatchesForDoc),
                                       g.replacementText)))

\* The list of App while an invocation of handleReplace holds
\* updatedDocuments = [...documents]: the Document objects the two lists
\* still share show the content the invocation has set.
SharedWith(list, g) ==
  [i \in DOMAIN list |->
     IF list[i].id \in g.shared
     THEN g.documents[FindDocument(g.documents, list[i].id)]
     ELSE list[i]]

\* SettleReplace that writes back the documents that are still listed.
SettleReplaceListedOnly(run) ==
  IF run.done
  THEN LET listed ==
             SelectSeq(run.g.documents,
                       LAMBDA doc : FindDocument(documents, doc.id) # 0)
       IN /\ documents' = listed
          /\ SaveDocuments(listed)
          /\ appliedChanges' =
               <<[read |-> run.g.read, listed |-> documents,
                  written |-> listed]>>
          /\ searchResults' = <<>>
          /\ lastSearch' = None
          /\ searchTerm' = <<>>
          /\ replacementText' = <<>>
          /\ isReplacing' = FALSE
          /\ processingStatus' = None
          /\ replace' = None
  ELSE /\ replace' = Some(run.g)
       /\ isReplacing' = TRUE
       /\ processingStatus' = Some(run.g.status)
       /\ documents' = SharedWith(documents, run.g)
       /\ UNCHANGED <<stored, appliedChanges, searchResults, lastSearch,
                      searchTerm, replacementText>>

\* onDocumentsUpdated(updatedDocuments), the resets and the finally block,
\* or the state while the invocation awaits the delegate.
SettleReplace(run) ==
  IF run.done
  THEN /\ documents' = run.g.documents
       /\ SaveDocuments(run.g.documents)
       /\ appliedChanges' =
            <<[read |-> run.g.read, listed |-> documents,
               written |-> run.g.documents]>>
       /\ searchResults' = <<>>
       /\ lastSearch' = None
       /\ searchTerm' = <<>>
       /\ replacementText' = <<>>
       /\ isReplacing' = FALSE
       /\ processingStatus' = None
       /\ replace' = None
  ELSE /\ replace' = Some(run.g)
       /\ isReplacing' = TRUE
       /\ processingStatus' = Some(run.g.status)
       /\ documents' = SharedWith(documents, run.g)
       /\ UNCHANGED <<stored, appliedChanges, searchResults, lastSearch,
                      searchTerm, replacementText>>

\* The variables handleReplace leaves alone.
ReplaceFrame ==
  /\ UNCHANGED <<smartReplacement, isSearching, searches>>
  /\ UNCHANGED <<isGeneratingPreviews, generation, reviewVars>>
  /\ UNCHANGED <<reviewOutcome, applies, preserveContext, preserveTense>>
  /\ NoNotice

\* handleReplace up to its first await or to its end. The Replace button is
\* disabled while isReplacing, and also when nothing is selected: the
\* handler's own test of that is modelled all the same.
HandleReplace ==
  /\ ~ isReplacing
  /\ IF Trim(replacementText) = <<>>
     THEN notice' = "Replacement text required" /\ UNCHANGED stateVars
     ELSE IF CountSelected(searchResults) = 0
     THEN notice' = "No matches selected" /\ UNCHANGED stateVars
     ELSE /\ SettleReplace(RunReplace(
               [searchResults |-> searchResults, documents |-> documents,
                read |-> documents,
                shared |-> {documents[i].id : i \in DOMAIN documents},
                replacementText |-> replacementText,
                preserve |-> preserveContext \/ preserveTense,
                r |-> 1,
                status |-> [total |-> CountSelected(searchResults),
                            completed |-> 0, errors |-> <<>>,
                            current |-> None]]))
          /\ ReplaceFrame

\* The delegate settles the call the invocation of handleReplace awaits for
\* one document, and the invocation runs on to its next await or to its end.
DelegateReplaceReply(response) ==
  /\ replace # None
  /\ LET g == replace[1]
         result == g.searchResults[g.r]
         d == FindDocument(g.documents, result.documentId)
         newContent ==
           IF response.kind = "text" THEN Trim(response.text)
           ELSE SpliceTexts(g.documents[d].content,
                            Reverse(SelectedMatches(result)),
                            g.replacementText)
     IN SettleReplace(RunReplace(Replaced(g, d, newContent)))
  /\ ReplaceFrame

Content_rewritten ==
  <<" ", "o", "n", "e", " ", "d", "o", "g", " ", "n", "a", "p", "s", " ",
    "a", "l", "l", " ", "d", "a", "y", " ", "l", "o", "n", "g", ".", "\n">>

\* What the delegate may do with the call of handleReplace: reject, or
\* answer with a text.
ReplaceResponses ==
  {[kind |-> "reject", text |-> <<>>],
   [kind |-> "text", text |-> Content_rewritten]}

ReplaceDocumentLists ==
  {<<Doc("d2", Content_nap, "ready"), Doc("d3", Content_dog, "ready")>>}

UploadedDocuments == {<<Doc("d4", Content_nap, "ready")>>}

\* What the user saves in the editor of DocumentPreview.
EditedContents == {<<"n", "o", "n", "e", ".">>}

LiveDocumentLists ==
  {<<Doc("d2", Content_nap, "ready"), Doc("d3", Content_dog, "ready")>>}

\* ---------------------------------------------------------- specifications

DocumentIds == {"d1", "d2", "d3"}

ShownMatchIds ==
  UNION {MatchIds(searchResults[r].matches) : r \in DOMAIN searchResults}

\* The ids of the matches the review dialog shows.
CurrentMatchIds ==
  IF ReviewShown THEN MatchIds(CurrentPreview.matches) ELSE {}

\* The review dialog covers the page (fixed inset-0): the user acts on the
\* page while it is not shown. The model follows the page until MaxApplies
\* reviews have changed documents.
PageReachable == ~ ReviewShown /\ applies < MaxApplies

RECURSIVE CountEdited(_)
\* The matches in review that carry a replacement the user typed (the texts
\* of EditTexts are none of the texts a generation produces).
CountEdited(previews) ==
  IF previews = <<>> THEN 0
  ELSE Len(SelectSeq(Head(previews).matches,
             LAMBDA m : m.contextualReplacement # None
                        /\ m.contextualReplacement[1] \in EditTexts))
       + CountEdited(Tail(previews))

Next ==
  \/ PageReachable /\ \E value \in Terms : SetSearchTerm(value)
  \/ PageReachable /\ \E value \in Replacements : SetReplacementText(value)
  \/ PageReachable /\ \E value \in BOOLEAN : SetSmartReplacement(value)
  \/ PageReachable /\ InFlight < MaxInFlight /\ HandleSearch
  \/ \E s \in 1..MaxInFlight, response \in SearchResponses :
       DelegateSearchReply(s, response)
  \/ PageReachable /\
       \E resultIndex \in 0..(Len(searchResults) - 1), matchId \in ShownMatchIds :
         ToggleMatchSelection(resultIndex, matchId)
  \/ PageReachable /\
       \E resultIndex \in 0..(Len(searchResults) - 1), selected \in BOOLEAN :
         ToggleAllMatches(resultIndex, selected)
  \/ PageReachable /\ GenerateContextualReplacements
  \/ \E response \in ReplacementResponses : DelegateReplacementReply(response)
  \/ \E documentId \in DocumentIds, matchId \in CurrentMatchIds :
       HandleApprove(documentId, matchId)
  \/ \E documentId \in DocumentIds, matchId \in CurrentMatchIds :
       HandleReject(documentId, matchId)
  \/ CountEdited(reviewState.previews) < MaxEdits /\
       \E documentId \in DocumentIds, matchId \in CurrentMatchIds,
          newReplacement \in EditTexts :
         HandleEditReplacement(documentId, matchId, newReplacement)
  \/ HandleApproveAll
  \/ HandleRejectAll
  \/ \E index \in 0..1 : OnIndexChange(index)
  \/ HandleCloseReview
  \/ PageReachable /\ \E documentId \in DocumentIds : HandleDocumentDelete(documentId)

Spec == Init /\ [][Next]_vars

\* The delegate settles the call of the search that started first.
OldestSearchReply ==
  \E response \in SearchResponses : DelegateSearchReply(1, response)

\* The delegate settles the call of the preview generation.
ReplacementReply ==
  \E response \in ReplacementResponses : DelegateReplacementReply(response)

\* Searches that overlap and preview generations, with a delegate that
\* settles every call: no call that an invocation awaits stays unsettled for
\* ever.
LiveInit == \E docs \in LiveDocumentLists : InitWith(docs, Str_cat)

LiveNext ==
  \/ ~ ReviewShown /\ \E value \in Replacements : SetReplacementText(value)
  \/ ~ ReviewShown /\ Len(searches) < MaxOverlap /\ HandleSearch
  \/ \E s \in 1..MaxOverlap, response \in SearchResponses :
       DelegateSearchReply(s, response)
  \/ ~ ReviewShown /\ GenerateContextualReplacements
  \/ \E response \in ReplacementResponses : DelegateReplacementReply(response)
  \/ HandleCloseReview

\* Weak fairness of the two replies, with ENABLED written out as the state
\* predicate it equals: OldestSearchReply can take a step exactly when a
\* search is in flight, ReplacementReply exactly when a generation is, and
\* every step of either changes the invocation it answers.
DelegateSettlesEveryCall ==
  /\ []<>(searches = <<>>) \/ []<><<OldestSearchReply>>_vars
  /\ []<>(generation = None) \/ []<><<ReplacementReply>>_vars

LiveSpec == LiveInit /\ [][LiveNext]_vars /\ DelegateSettlesEveryCall

MatcherInit ==
  \E docs \in ProbeDocumentLists, term \in ProbeTerms : InitWith(docs, term)

\* One search of the document list.
MatcherNext ==
  \/ InFlight = 0 /\ lastSearch = None /\ HandleSearch
  \/ \E s \in 1..MaxInFlight, response \in ProbeResponses :
       DelegateSearchReply(s, response)

MatcherSpec == MatcherInit /\ [][MatcherNext]_vars

\* One search answered by the literal scan, and the preview generations
\* over its results.
PreviewInit == \E docs \in PreviewDocumentLists : InitWith(docs, <<>>)

PreviewNext ==
  \/ PageReachable /\ \E value \in Terms : SetSearchTerm(value)
  \/ PageReachable /\ \E value \in PreviewReplacements : SetReplacementText(value)
  \/ PageReachable /\ \E value \in BOOLEAN : SetSmartReplacement(value)
  \/ PageReachable /\ InFlight = 0 /\ lastSearch = None /\ HandleSearch
  \/ DelegateSearchReply(1, Rejected)
  \/ PageReachable /\
       \E resultIndex \in 0..(Len(searchResults) - 1), matchId \in ShownMatchIds :
         ToggleMatchSelection(resultIndex, matchId)
  \/ PageReachable /\ GenerateContextualReplacements
  \/ \E response \in PreviewResponses : DelegateReplacementReply(response)
  \/ PageReachable /\ \E documentId \in DocumentIds : HandleDocumentDelete(documentId)

PreviewSpec == PreviewInit /\ [][PreviewNext]_vars

\* Searches over one document list, started while earlier ones await the
\* delegate.
SearchInit == \E docs \in SearchDocumentLists : InitWith(docs, <<>>)

SearchNext ==
  \/ \E value \in SearchTerms : SetSearchTerm(value)
  \/ Len(searches) < MaxOverlap /\ HandleSearch
  \/ \E s \in 1..MaxOverlap, response \in OverlapResponses :
       DelegateSearchReply(s, response)

SearchSpec == SearchInit /\ [][SearchNext]_vars

ReplaceDocumentIds == {"d2", "d3", "d4"}

\* An upload gives its documents ids no listed document has, nor any
\* document an invocation of handleReplace holds.
Fresh(id) ==
  /\ FindDocument(documents, id) = 0
  /\ replace # None => FindDocument(replace[1].documents, id) = 0

\* First revision: searches, replacements that await the delegate, and the
\* handlers of App that change the document list.
ReplaceInit == \E docs \in ReplaceDocumentLists : InitWith(docs, <<>>)

ReplaceNext ==
  \/ \E value \in Terms : SetSearchTerm(value)
  \/ \E value \in Replacements : SetReplacementText(value)
  \/ \E value \in BOOLEAN : SetPreserveContext(value)
  \/ \E value \in BOOLEAN : SetPreserveTense(value)
  \/ FirstHandleSearch
  \/ \E resultIndex \in 0..(Len(searchResults) - 1), matchId \in ShownMatchIds :
       ToggleMatchSelection(resultIndex, matchId)
  \/ stored.writes < MaxWrites /\ HandleReplace
  \/ \E response \in ReplaceResponses : DelegateReplaceReply(response)
  \/ \E documentId \in ReplaceDocumentIds : HandleDocumentDelete(documentId)
  \/ \E newDocuments \in UploadedDocuments :
       /\ \A i \in DOMAIN newDocuments : Fresh(newDocuments[i].id)
       /\ stored.writes < MaxWrites
       /\ HandleDocumentsUploaded(newDocuments)
  \/ \E documentId \in ReplaceDocumentIds, editedContent \in EditedContents :
       /\ stored.writes < MaxWrites
       /\ HandleDocumentUpdated(documentId, editedContent)

ReplaceSpec == ReplaceInit /\ [][ReplaceNext]_vars

AppDocumentLists == DocumentLists \cup SearchDocumentLists

AppDocumentIds == {"d1", "d2", "d3", "d4", "u1", "u2", "u3"}

\* The handlers of App that change the document list.
AppInit == \E docs \in AppDocumentLists : InitWith(docs, <<>>)

AppNext ==
  \/ \E documentId \in AppDocumentIds : HandleDocumentDelete(documentId)
  \/ \E newDocuments \in UploadedDocuments :
       /\ \A i \in DOMAIN newDocuments : Fresh(newDocuments[i].id)
       /\ stored.writes < MaxWrites
       /\ HandleDocumentsUploaded(newDocuments)
  \/ \E documentId \in AppDocumentIds, editedContent \in EditedContents :
       /\ stored.writes < MaxWrites
       /\ HandleDocumentUpdated(documentId, editedContent)
  \/ \E confirmed \in BOOLEAN : ClearAllDocuments(confirmed)

AppSpec == AppInit /\ [][AppNext]_vars

\* ------------------------------------------------------- claims: matcher

\* q occurs in D, case-insensitively.
Occurs(q, D) == Includes(ToLowerCase(D), ToLowerCase(q))

\* The matches the shown results hold for a document, none when it has no
\* result.
MatchesFor(documentId) ==
  IF \E r \in DOMAIN searchResults : searchResults[r].documentId = documentId
  THEN searchResults[CHOOSE r \in DOMAIN searchResults :
                       searchResults[r].documentId = documentId].matches
  ELSE <<>>

\* The answers lastSearch records for a document.
RepliesFor(document) ==
  IF lastSearch = None THEN {}
  ELSE {lastSearch[1].replies[i].response : i \in
          {j \in DOMAIN lastSearch[1].replies :
             lastSearch[1].replies[j].document = document}}

\* The documents the search that produced the results called the delegate
\* for, and its query.
SearchedDocuments ==
  IF lastSearch = None THEN {}
  ELSE {lastSearch[1].replies[i].document : i \in DOMAIN lastSearch[1].replies}

SearchedTerm == IF lastSearch = None THEN <<>> ELSE lastSearch[1].searchTerm

\* A match without its id.
Shown(m) ==
  [originalText |-> m.originalText, context |-> m.context,
   position |-> m.position, line |-> m.line, relevance |-> m.relevance,
   selected |-> m.selected]

ShownAll(matches) == [i \in DOMAIN matches |-> Shown(matches[i])]

IsLiteral(m) == m.id[1] \in {"simple_match", "fallback_match"}

\* C1: whatever the delegate did, a searchable document whose content holds
\* the query (ignoring case) has at least one match in the results of the
\* search.
C1_LiteralMatchNeverLost ==
  \A d \in SearchedDocuments :
    (Searchable(d) /\ Occurs(SearchedTerm, d.content))
      => Len(MatchesFor(d.id)) >= 1

\* C1 witness: the delegate answered with candidates that were all dropped,
\* and the document still has its literal matches.
C1_Witness ==
  \E d \in SearchedDocuments :
    /\ Searchable(d) /\ Occurs(SearchedTerm, d.content)
    /\ \E a \in RepliesFor(d) : a.json = "array" /\ a.candidates # <<>>
    /\ Len(MatchesFor(d.id)) >= 2
    /\ \A i \in DOMAIN MatchesFor(d.id) : IsLiteral(MatchesFor(d.id)[i])

\* C2, as claimed: when the query occurs in the content, the literal scan
\* yields at least one match, and every literal match's originalText equals
\* the query ignoring case and is the content at [position, position + |q|).
C2_LiteralScanAsClaimed ==
  \A d \in SearchedDocuments :
    (Searchable(d) /\ Occurs(SearchedTerm, d.content)
       /\ \A a \in RepliesFor(d) : a.kind = "reject")
      => /\ Len(MatchesFor(d.id)) >= 1
         /\ \A i \in DOMAIN MatchesFor(d.id) :
              LET m == MatchesFor(d.id)[i]
              IN /\ ToLowerCase(m.originalText) = ToLowerCase(SearchedTerm)
                 /\ m.originalText =
                      Substring(d.content, m.position,
                                m.position + Len(SearchedTerm))

\* C3: when the delegate returned a non-empty candidate array, every match
\* returned for the document has relevance >= 6, and is either a candidate
\* that passed the threshold or a literal match of relevance 10.
C3_NoLowRelevance ==
  \A d \in SearchedDocuments :
    \A a \in RepliesFor(d) :
      (a.kind = "text" /\ a.json = "array" /\ a.candidates # <<>>)
        => \A i \in DOMAIN MatchesFor(d.id) :
             LET m == MatchesFor(d.id)[i]
             IN /\ m.relevance >= 6
                /\ \/ IsLiteral(m) /\ m.relevance = 10
                   \/ \E k \in DOMAIN a.candidates :
                        /\ a.candidates[k].kind = "object"
                        /\ a.candidates[k].text = m.originalText
                        /\ a.candidates[k].relevance = m.relevance
                        /\ a.candidates[k].relevance >= 6

\* C3 witness: an answer that mixes a candidate below the threshold with one
\* above it, of which only the latter is returned.
C3_Witness ==
  \E d \in SearchedDocuments :
    \E a \in RepliesFor(d) :
      /\ a.json = "array"
      /\ \E k \in DOMAIN a.candidates :
           /\ a.candidates[k].kind = "object"
           /\ a.candidates[k].relevance < 6
           /\ Includes(d.content, a.candidates[k].text)
      /\ Len(MatchesFor(d.id)) = 1
      /\ MatchesFor(d.id)[1].id[1] = "ai_match"

\* C4: when the delegate's answer holds malformed JSON, the matches returned
\* for the document are those of the literal scan of the delegate-failure
\* path: as many, with the same position, originalText, context, line,
\* relevance and selected flag.
C4_MalformedEqualsDirectScan ==
  \A d \in SearchedDocuments :
    \A a \in RepliesFor(d) :
      (a.kind = "text" /\ a.json = "malformed")
        => ShownAll(MatchesFor(d.id))
             = ShownAll(FallbackScan(d, SearchedTerm, 0, <<>>))

\* C4 witness: a malformed answer for a document holding the query on two
\* lines.
C4_Witness ==
  \E d \in SearchedDocuments :
    /\ \E a \in RepliesFor(d) : a.json = "malformed"
    /\ Len(MatchesFor(d.id)) >= 2
    /\ \E i, j \in DOMAIN MatchesFor(d.id) :
         MatchesFor(d.id)[i].line # MatchesFor(d.id)[j].line

\* ------------------------------------------------------ claims: pipeline

\* The splices the last applyApprovedChanges made in a document, in order.
SplicedIn(documentId) ==
  SelectSeq(appliedChanges,
            LAMBDA e : e.spliced /\ e.documentId = documentId)

LoggedDocuments ==
  {appliedChanges[k].documentId : k \in DOMAIN appliedChanges}

StrictlyDescending(positions) ==
  \A k \in 1..(Len(positions) - 1) : positions[k] > positions[k + 1]

Positions(entries) == [k \in DOMAIN entries |-> entries[k].position]

\* C5: when the splices applied to a document all put in one non-empty
\* replacement text that its content did not hold before (ignoring case), a
\* literal scan of the resulting content for that text finds exactly as
\* many occurrences as splices were applied.
C5_RescanCountsApplied ==
  \A id \in LoggedDocuments :
    LET splices == SplicedIn(id)
    IN splices # <<>> =>
         LET text == splices[1].replacement
             before == splices[1].before
             after == splices[Len(splices)].after
         IN (/\ text # <<>>
             /\ \A k \in DOMAIN splices : splices[k].replacement = text
             /\ ~ Occurs(text, before))
            => Len(FallbackScan(Doc(id, after, "ready"), text, 0, <<>>))
                 = Len(splices)

\* C6: the preview content of a document and the content
\* applyApprovedChanges gives it are spliced in strictly descending
\* position order: the matches of a preview, taken in reverse, and the
\* splices made in a document, taken in order, have strictly descending
\* positions.
C6_DescendingSpliceOrder ==
  /\ \A p \in DOMAIN reviewState.previews :
       StrictlyDescending(Positions(Reverse(reviewState.previews[p].matches)))
  /\ \A id \in LoggedDocuments : StrictlyDescending(Positions(SplicedIn(id)))

\* The review dialog is closed by this step.
ReviewCloses == ReviewShown /\ ~ reviewState'.isReviewing

\* No match of the previews of a document is approved.
NoneApprovedIn(documentId) ==
  \A p \in DOMAIN reviewState.previews :
    reviewState.previews[p].documentId = documentId
      => \A k \in DOMAIN reviewState.previews[p].matches :
           reviewState.previews[p].matches[k].approved # "true"

\* C7: when the review is closed, every splice made is of a match of the
\* previews whose approval is true, no rejected or undecided match is
\* spliced, and a document with no approved match keeps its content.
C7_OnlyApprovedSpliced ==
  [][ReviewCloses =>
       /\ applies' # applies =>
            /\ \A k \in DOMAIN appliedChanges' :
                 appliedChanges'[k].spliced
                   => /\ appliedChanges'[k].approved = "true"
                      /\ \E p \in DOMAIN reviewState.previews :
                           /\ reviewState.previews[p].documentId
                                = appliedChanges'[k].documentId
                           /\ \E m \in DOMAIN reviewState.previews[p].matches :
                                /\ reviewState.previews[p].matches[m].id
                                     = appliedChanges'[k].matchId
                                /\ reviewState.previews[p].matches[m].approved
                                     = "true"
            /\ \A p \in DOMAIN reviewState.previews :
                 \A m \in DOMAIN reviewState.previews[p].matches :
                   reviewState.previews[p].matches[m].approved # "true"
                     => ~ \E k \in DOMAIN appliedChanges' :
                            /\ appliedChanges'[k].spliced
                            /\ appliedChanges'[k].documentId
                                 = reviewState.previews[p].documentId
                            /\ appliedChanges'[k].matchId
                                 = reviewState.previews[p].matches[m].id
       /\ Len(documents') = Len(documents)
       /\ \A i \in DOMAIN documents :
            NoneApprovedIn(documents[i].id) => documents'[i] = documents[i]
     ]_vars

\* C7 witness: a review was closed and changed a document by an approved
\* match while it passed over a rejected or undecided match of the same
\* document.
C7_Witness ==
  /\ reviewOutcome = "applied"
  /\ \E j, k \in DOMAIN appliedChanges :
       /\ appliedChanges[j].spliced
       /\ appliedChanges[j].before # appliedChanges[j].after
       /\ ~ appliedChanges[k].spliced
       /\ appliedChanges[k].approved # "true"
       /\ appliedChanges[k].documentId = appliedChanges[j].documentId

\* A match as a preview lists it.
Listed(m) ==
  [id |-> m.id, position |-> m.position, originalText |-> m.originalText]

ListedAll(matches) == [k \in DOMAIN matches |-> Listed(matches[k])]

\* Per result with a selected match, the document and its selected
\* matches.
SelectedByDocument(results) ==
  LET chosen ==
        SelectSeq(results,
          LAMBDA r : \E k \in DOMAIN r.matches : r.matches[k].selected)
  IN [i \in DOMAIN chosen |->
        [documentId |-> chosen[i].documentId,
         matches |-> ListedAll(SelectSeq(chosen[i].matches,
                                         LAMBDA m : m.selected))]]

PreviewedByDocument ==
  [p \in DOMAIN reviewState.previews |->
     [documentId |-> reviewState.previews[p].documentId,
      matches |-> ListedAll(reviewState.previews[p].matches)]]

\* C8 as stated: the previews hold exactly the matches that were selected
\* when the generation started, each once and under its own document.
C8_PreviewsAreTheSelectedMatches ==
  (reviewState.isReviewing /\ lastGeneration # None)
    => PreviewedByDocument = SelectedByDocument(lastGeneration[1].searchResults)

\* C8: the previews hold exactly the matches that were selected when the
\* generation started and whose document was in the document list then,
\* each once and under its own document.
C8_PreviewsAreTheSelectedMatchesOfListedDocuments ==
  (reviewState.isReviewing /\ lastGeneration # None)
    => PreviewedByDocument =
         SelectedByDocument(
           SelectSeq(lastGeneration[1].searchResults,
             LAMBDA r : \E i \in DOMAIN lastGeneration[1].documents :
                          lastGeneration[1].documents[i].id = r.documentId))

\* C8 witness: previews were generated from results of which one match was
\* selected and another of the same document was not.
C8_Witness ==
  /\ reviewState.isReviewing
  /\ lastGeneration # None
  /\ reviewState.previews # <<>>
  /\ \E r \in DOMAIN lastGeneration[1].searchResults :
       \E j, k \in DOMAIN lastGeneration[1].searchResults[r].matches :
         /\ lastGeneration[1].searchResults[r].matches[j].selected
         /\ ~ lastGeneration[1].searchResults[r].matches[k].selected

NoneApproved ==
  \A p \in DOMAIN reviewState.previews :
    \A k \in DOMAIN reviewState.previews[p].matches :
      reviewState.previews[p].matches[k].approved # "true"

\* C9: closing the review while no match is approved changes no document,
\* writes nothing to the store, and sets the review state to the idle
\* state, in which no match is approved either, so that closing again
\* would do the same; nothing else of the component changes.
C9_CloseWithoutApproval ==
  [][(ReviewCloses /\ NoneApproved) =>
       /\ documents' = documents
       /\ stored' = stored
       /\ reviewState' = IdleReview
       /\ UNCHANGED <<formVars, searchVars, generationVars>>
       /\ UNCHANGED <<isReplacing, appliedChanges, applies>>
     ]_vars

\* C9 witness: a review was closed with no match approved, and the results
\* it came from are still shown.
C9_Witness ==
  /\ reviewOutcome = "discarded"
  /\ reviewState = IdleReview
  /\ searchResults # <<>>
  /\ applies = 0

AllApproved ==
  /\ reviewState.previews # <<>>
  /\ \A p \in DOMAIN reviewState.previews :
       \A k \in DOMAIN reviewState.previews[p].matches :
         reviewState.previews[p].matches[k].approved = "true"

\* How many splices the step made of a match of a previewed document.
SplicesOf(log, documentId, matchId) ==
  Cardinality({k \in DOMAIN log :
                 /\ log[k].spliced
                 /\ log[k].documentId = documentId
                 /\ log[k].matchId = matchId})

SameIdentity ==
  /\ Len(documents') = Len(documents)
  /\ \A i \in DOMAIN documents :
       /\ documents'[i].id = documents[i].id
       /\ documents'[i].name = documents[i].name
       /\ documents'[i].type = documents[i].type

\* C10 as stated: closing the review with every match approved splices each
\* match of each preview exactly once, and leaves the id, name and type of
\* every document as they were.
C10_ApproveAllSplicesEveryPreview ==
  [][(ReviewCloses /\ AllApproved) =>
       /\ \A p \in DOMAIN reviewState.previews :
            \A k \in DOMAIN reviewState.previews[p].matches :
              SplicesOf(appliedChanges', reviewState.previews[p].documentId,
                        reviewState.previews[p].matches[k].id) = 1
       /\ SameIdentity
     ]_vars

\* C10: closing the review with every match approved splices each match of
\* each preview whose document is still in the document list exactly once,
\* and leaves the id, name and type of every document as they were.
C10_ApproveAllSplicesEveryListedPreview ==
  [][(ReviewCloses /\ AllApproved) =>
       /\ \A p \in DOMAIN reviewState.previews :
            FindDocument(documents, reviewState.previews[p].documentId) # 0
              => \A k \in DOMAIN reviewState.previews[p].matches :
                   SplicesOf(appliedChanges',
                             reviewState.previews[p].documentId,
                             reviewState.previews[p].matches[k].id) = 1
       /\ SameIdentity
     ]_vars

\* C10 witness: a review with every match approved was closed and spliced
\* matches into two documents.
C10_Witness ==
  /\ reviewOutcome = "applied"
  /\ \A k \in DOMAIN appliedChanges :
       appliedChanges[k].approved = "true" /\ appliedChanges[k].spliced
  /\ \E j, k \in DOMAIN appliedChanges :
       appliedChanges[j].documentId # appliedChanges[k].documentId

\* -------------------------------------------------- claims: review gate

\* The step ends an invocation of generateContextualReplacements.
GenerationCompletes ==
  /\ lastGeneration' # None
  /\ lastGeneration' # lastGeneration
  /\ generation' = None
  /\ ~ isGeneratingPreviews'
  /\ processingStatus' = None

\* C11: the review state is idle or reviewing; a step makes it reviewing
\* only by ending a preview generation, and leaves reviewing only by a close
\* of the review; every close of the review, with or without approved
\* matches, leaves isReviewing false, previews empty and currentPreviewIndex
\* 0, which is the only state that is not reviewing.
C11_ReviewGate ==
  [][/\ (~ reviewState.isReviewing /\ reviewState'.isReviewing)
          => GenerationCompletes
     /\ HandleCloseReview => reviewState' = IdleReview
     /\ (reviewState.isReviewing /\ ~ reviewState'.isReviewing)
          => HandleCloseReview
     /\ ~ reviewState'.isReviewing => reviewState' = IdleReview
    ]_vars

\* C11 witness: a review of several matches has been closed with an approved
\* match and an unapproved one, and the review state is idle again.
C11_Witness ==
  /\ reviewOutcome = "applied"
  /\ reviewState = IdleReview
  /\ Len(appliedChanges) >= 2
  /\ \E k \in DOMAIN appliedChanges : ~ appliedChanges[k].spliced

\* The places (preview, match) of the previews that hold the match matchId
\* of the document documentId.
PlacesOf(documentId, matchId) ==
  UNION {{<<p, k>> : k \in {j \in DOMAIN reviewState.previews[p].matches :
                             reviewState.previews[p].matches[j].id = matchId}} :
           p \in {q \in DOMAIN reviewState.previews :
                    reviewState.previews[q].documentId = documentId}}

\* The previews keep their shape.
SamePlaces ==
  /\ DOMAIN reviewState'.previews = DOMAIN reviewState.previews
  /\ \A p \in DOMAIN reviewState.previews :
       DOMAIN reviewState'.previews[p].matches
         = DOMAIN reviewState.previews[p].matches

\* The step sets the approval of one match, and of no other.
OnlyApprovalSet(documentId, matchId, approved) ==
  /\ Cardinality(PlacesOf(documentId, matchId)) = 1
  /\ SamePlaces
  /\ \A p \in DOMAIN reviewState.previews :
       \A k \in DOMAIN reviewState.previews[p].matches :
         reviewState'.previews[p].matches[k].approved =
           IF <<p, k>> \in PlacesOf(documentId, matchId)
           THEN approved
           ELSE reviewState.previews[p].matches[k].approved

\* The step sets the approval of every match of every preview.
EveryApprovalSet(approved) ==
  /\ SamePlaces
  /\ \A p \in DOMAIN reviewState.previews :
       \A k \in DOMAIN reviewState.previews[p].matches :
         reviewState'.previews[p].matches[k].approved = approved

\* C12: while reviewing, approving or rejecting the match (documentId,
\* matchId) sets the approval of that one match to true or false and leaves
\* the approval of every other match of every preview as it was; approve-all
\* and reject-all set the approval of every match of every preview to true
\* or false.
C12_ApprovalIsPerMatch ==
  [][/\ \A documentId \in DocumentIds, matchId \in CurrentMatchIds :
          /\ HandleApprove(documentId, matchId)
               => OnlyApprovalSet(documentId, matchId, "true")
          /\ HandleReject(documentId, matchId)
               => OnlyApprovalSet(documentId, matchId, "false")
     /\ HandleApproveAll => EveryApprovalSet("true")
     /\ HandleRejectAll => EveryApprovalSet("false")
    ]_vars

\* C12 witness: two previews hold a match of the same id; the one is
\* approved, the other rejected.
C12_Witness ==
  /\ ReviewShown
  /\ \E p, q \in DOMAIN reviewState.previews :
       \E j \in DOMAIN reviewState.previews[p].matches,
          k \in DOMAIN reviewState.previews[q].matches :
         /\ p # q
         /\ reviewState.previews[p].matches[j].id
              = reviewState.previews[q].matches[k].id
         /\ reviewState.previews[p].matches[j].approved = "true"
         /\ reviewState.previews[q].matches[k].approved = "false"

\* C13: saving an edited replacement for the match (documentId, matchId)
\* sets the contextualReplacement of that one match to the text typed and
\* changes nothing else: the match keeps its approval, position,
\* originalText and every other field, every other match and the rest of
\* every preview are as before, no delegate call is started, and the
\* documents and the store are untouched.
C13_EditSetsReplacementOnly ==
  [][\A documentId \in DocumentIds, matchId \in CurrentMatchIds,
        newReplacement \in EditTexts :
       HandleEditReplacement(documentId, matchId, newReplacement)
         => /\ Cardinality(PlacesOf(documentId, matchId)) = 1
            /\ SamePlaces
            /\ \A p \in DOMAIN reviewState.previews :
                 /\ reviewState'.previews[p].documentId
                      = reviewState.previews[p].documentId
                 /\ reviewState'.previews[p].documentName
                      = reviewState.previews[p].documentName
                 /\ reviewState'.previews[p].previewContent
                      = reviewState.previews[p].previewContent
                 /\ \A k \in DOMAIN reviewState.previews[p].matches :
                      reviewState'.previews[p].matches[k] =
                        IF <<p, k>> \in PlacesOf(documentId, matchId)
                        THEN [reviewState.previews[p].matches[k] EXCEPT
                                !.contextualReplacement = Some(newReplacement)]
                        ELSE reviewState.previews[p].matches[k]
            /\ reviewState'.isReviewing = reviewState.isReviewing
            /\ reviewState'.currentPreviewIndex
                 = reviewState.currentPreviewIndex
            /\ generation' = generation
            /\ searches' = searches
            /\ documents' = documents
            /\ stored' = stored
    ]_vars

\* C13 witness: an approved match carries a replacement the user typed,
\* next to a match that carries the generated one.
C13_Witness ==
  /\ ReviewShown
  /\ \E j, k \in DOMAIN CurrentPreview.matches :
       /\ CurrentPreview.matches[j].contextualReplacement = Some(Str_ox)
       /\ CurrentPreview.matches[j].approved = "true"
       /\ CurrentPreview.matches[k].contextualReplacement \notin
            {Some(t) : t \in EditTexts}
       /\ CurrentPreview.matches[k].contextualReplacement # None

\* ---------------------------------------------------- claims: validation

ValidationNotices ==
  {"Search term required", "No documents", "Replacement text required",
   "No matches selected"}

\* C14: a search with a blank query or an empty document list, and a preview
\* generation with blank replacement text or no selected match, only show
\* their notice: no invocation starts to await the delegate, and the search
\* results, the review state, the busy flags, the processing status, the
\* documents and every other variable are as before.
C14_ValidationAbortsClean ==
  [][/\ (HandleSearch /\ Trim(searchTerm) = <<>>)
          => (notice' = "Search term required" /\ UNCHANGED stateVars)
     /\ (HandleSearch /\ Len(documents) = 0)
          => (notice' \in ValidationNotices /\ UNCHANGED stateVars)
     /\ (GenerateContextualReplacements /\ Trim(replacementText) = <<>>)
          => (notice' = "Replacement text required" /\ UNCHANGED stateVars)
     /\ (GenerateContextualReplacements /\ CountSelected(searchResults) = 0)
          => (notice' \in ValidationNotices /\ UNCHANGED stateVars)
     /\ notice' \in ValidationNotices => UNCHANGED stateVars
    ]_vars

\* C14 witness: a search was refused for want of documents while results of
\* an earlier search, with a replacement text entered, were on the page, and
\* they still are.
C14_Witness ==
  /\ notice = "No documents"
  /\ documents = <<>>
  /\ searchResults # <<>>
  /\ replacementText # <<>>
  /\ searches = <<>>
  /\ ~ isSearching

\* ------------------------------------------- claims: preview generation

RECURSIVE SelectedKeys(_, _)
\* The selected matches of the results whose document is in the list, as
\* (document, match) in the order of the results.
SelectedKeys(results, docs) ==
  IF results = <<>> THEN <<>>
  ELSE LET selected == SelectedMatches(Head(results))
       IN (IF FindDocument(docs, Head(results).documentId) = 0 THEN <<>>
           ELSE [k \in DOMAIN selected |->
                   <<Head(results).documentId, selected[k].id>>])
          \o SelectedKeys(Tail(results), docs)

ReplyKeys(replies) ==
  [i \in DOMAIN replies |-> <<replies[i].documentId, replies[i].matchId>>]

\* The matches of the previews that are the match (documentId, matchId).
PreviewedAs(previews, documentId, matchId) ==
  UNION {{previews[p].matches[k] :
            k \in {j \in DOMAIN previews[p].matches :
                     previews[p].matches[j].id = matchId}} :
           p \in {q \in DOMAIN previews : previews[q].documentId = documentId}}

\* The call failed, or its answer holds no JSON object or one that does not
\* parse.
FailedReply(response) ==
  response.kind = "reject" \/ response.json \in {"none", "malformed"}

\* C15: when a preview generation in smart mode ends, the delegate has been
\* called exactly once for each selected match of a listed document, in
\* order (no retry, and no match after a failure left out); every such match
\* is in the previews exactly once; and a match whose call rejected, or
\* whose answer held no JSON object or did not parse, carries the literal
\* replacement text as its contextualReplacement.
C15_FailedCallFallsBackToLiteral ==
  [][(GenerationCompletes /\ lastGeneration'[1].smartReplacement) =>
       LET gen == lastGeneration'[1]
       IN /\ ReplyKeys(gen.replies)
               = SelectedKeys(gen.searchResults, gen.documents)
          /\ \A i \in DOMAIN gen.replies :
               LET previewed ==
                     PreviewedAs(reviewState'.previews,
                                 gen.replies[i].documentId,
                                 gen.replies[i].matchId)
               IN /\ Cardinality(previewed) = 1
                  /\ FailedReply(gen.replies[i].response)
                       => \A m \in previewed :
                            m.contextualReplacement = Some(gen.replacementText)
    ]_vars

\* C15 witness: a generation over three matches in two documents has ended
\* in which one call rejected, one answer held no JSON object and one did
\* not parse.
C15_Witness ==
  /\ reviewState.isReviewing
  /\ lastGeneration # None
  /\ Len(reviewState.previews) = 2
  /\ LET replies == lastGeneration[1].replies
     IN /\ Len(replies) = 3
        /\ replies[1].response.kind = "reject"
        /\ replies[2].response.json = "malformed"
        /\ replies[3].response.kind = "text"
        /\ replies[3].response.json = "none"

\* C16: a preview generation started with smart replacement off awaits no
\* delegate call (it ends in the step that starts it, and no call is ever
\* outstanding for it), and every match of every preview it makes has the
\* replacement text, exactly as entered, as its contextualReplacement.
C16_LiteralWhenSmartOff ==
  [][/\ (GenerationCompletes /\ ~ lastGeneration'[1].smartReplacement)
          => /\ generation = None
             /\ lastGeneration'[1].replies = <<>>
             /\ lastGeneration'[1].replacementText = replacementText
             /\ \A p \in DOMAIN reviewState'.previews :
                  \A k \in DOMAIN reviewState'.previews[p].matches :
                    reviewState'.previews[p].matches[k].contextualReplacement
                      = Some(replacementText)
     /\ generation' # None => generation'[1].smartReplacement
    ]_vars

\* C16 witness: previews of three matches were made with smart replacement
\* off from a replacement text that begins with a space.
C16_Witness ==
  /\ reviewState.isReviewing
  /\ lastGeneration # None
  /\ ~ lastGeneration[1].smartReplacement
  /\ lastGeneration[1].replacementText = <<" ", "o", "x">>
  /\ Len(reviewState.previews) = 2
  /\ \A p \in DOMAIN reviewState.previews :
       \A k \in DOMAIN reviewState.previews[p].matches :
         reviewState.previews[p].matches[k].contextualReplacement
           = Some(<<" ", "o", "x">>)

\* -------------------------------------------------------- claims: search

\* Every document of the list with this id is searchable.
SearchableIn(docs, documentId) ==
  \A i \in DOMAIN docs : docs[i].id = documentId => Searchable(docs[i])

\* C17: a document that is not searchable (status other than ready, content
\* holding a failure sentinel, or trimmed content shorter than 20) is left
\* out of matching: the call a search awaits, and every call it was
\* answered, is for a searchable document, and no result a search has
\* collected or published refers to a document that is not searchable.
C17_UnsearchableExcluded ==
  /\ \A s \in DOMAIN searches :
       /\ Searchable(searches[s].documents[searches[s].index])
       /\ \A i \in DOMAIN searches[s].replies :
            Searchable(searches[s].replies[i].document)
       /\ \A r \in DOMAIN searches[s].results :
            SearchableIn(searches[s].documents,
                         searches[s].results[r].documentId)
  /\ lastSearch # None =>
       \A i \in DOMAIN lastSearch[1].replies :
         Searchable(lastSearch[1].replies[i].document)
  /\ \A r \in DOMAIN searchResults :
       SearchableIn(documents, searchResults[r].documentId)

\* C17 witness: a search has published results for two documents from a
\* list that also holds the query in a document that is not ready, in one
\* with a failure sentinel and in one too short once trimmed.
C17_Witness ==
  /\ lastSearch # None
  /\ Len(searchResults) = 2
  /\ \E i, j, k \in DOMAIN documents :
       /\ documents[i].status # "ready"
       /\ Includes(documents[j].content, SentinelFailed)
       /\ documents[j].status = "ready"
       /\ Len(documents[k].content) >= MinContentLength
       /\ Len(Trim(documents[k].content)) < MinContentLength
       /\ \A d \in {i, j, k} :
            /\ Occurs(lastSearch[1].searchTerm, documents[d].content)
            /\ MatchesFor(documents[d].id) = <<>>

\* The ids of a list of documents, in order.
Ids(docs) == [i \in DOMAIN docs |-> docs[i].id]

\* The calls an invocation of handleSearch has made: those answered, and
\* the one it awaits.
SearchCalls(inv) ==
  [i \in DOMAIN inv.replies |-> inv.replies[i].document.id]
    \o <<inv.documents[inv.index].id>>

\* The calls an invocation of generateContextualReplacements has made.
GenerationCalls(g) ==
  ReplyKeys(g.replies)
    \o <<<<g.searchResults[g.r].documentId,
           SelectedMatches(g.searchResults[g.r])[g.m].id>>>>

\* C18: an invocation that awaits the delegate awaits one call, and the
\* calls it has made so far, the awaited one last, are an initial segment
\* of its work in order: for a search the searchable documents in the order
\* of the document list, for a preview generation the selected matches of
\* the listed documents in the order of the results and, within a result,
\* of its matches. So a call is made only after every earlier one was
\* answered.
C18_OneCallAtATime ==
  /\ \A s \in DOMAIN searches :
       /\ searches[s].index \in DOMAIN searches[s].documents
       /\ SearchCalls(searches[s])
            = Ids(SelectSeq(SubSeq(searches[s].documents, 1,
                                   searches[s].index),
                            Searchable))
  /\ generation # None =>
       LET g == generation[1]
           work == SelectedKeys(g.searchResults, g.documents)
       IN /\ Len(GenerationCalls(g)) <= Len(work)
          /\ GenerationCalls(g) = SubSeq(work, 1, Len(GenerationCalls(g)))

\* C18 witness: a preview generation awaits its third call, the first for
\* the second document, after a search that called the delegate for two
\* documents past one that is not searchable.
C18_Witness ==
  /\ generation # None
  /\ Len(generation[1].replies) = 2
  /\ generation[1].r = 2
  /\ generation[1].m = 1
  /\ lastSearch # None
  /\ Len(lastSearch[1].replies) = 2
  /\ \E i \in DOMAIN documents : ~ Searchable(documents[i])

\* An invocation of handleSearch without the mark of having been overtaken.
Unmarked(inv) == [inv EXCEPT !.overtaken = FALSE]

UnmarkedAll(invs) == [i \in DOMAIN invs |-> Unmarked(invs[i])]

\* The results the s-th invocation publishes when this answer is its last.
ResultsAtEnd(s, response) ==
  LET inv == searches[s]
      document == inv.documents[inv.index]
      matches == SearchDocument(document, inv.searchTerm, response)
  IN IF Len(matches) > 0
     THEN Append(inv.results,
            [documentId |-> document.id, documentName |-> document.name,
             matches |-> matches])
     ELSE inv.results

\* C19: searches overlap and none is cancelled. A search that starts while
\* others await the delegate joins them and leaves them as they are; an
\* answer to one invocation moves that invocation alone; an invocation that
\* ends publishes its own results over whatever is shown, whether or not a
\* search started later has ended before it, and the others stay in flight.
C19_LastToFinishWins ==
  [][/\ (HandleSearch /\ searches # <<>> /\ notice' = "none")
          => /\ Len(searches') >= Len(searches)
             /\ SubSeq(searches', 1, Len(searches)) = searches
     /\ \A s \in DOMAIN searches, response \in OverlapResponses :
          DelegateSearchReply(s, response)
            => IF NextSearchable(searches[s].documents,
                                 searches[s].index + 1) = 0
               THEN /\ searchResults' = ResultsAtEnd(s, response)
                    /\ lastSearch'[1].searchTerm = searches[s].searchTerm
                    /\ lastSearch'[1].overtaken = searches[s].overtaken
                    /\ UnmarkedAll(searches')
                         = UnmarkedAll(RemoveAt(searches, s))
               ELSE /\ Len(searches') = Len(searches)
                    /\ \A t \in DOMAIN searches :
                         t # s => searches'[t] = searches[t]
                    /\ searchResults' = searchResults
    ]_vars

\* C19 witness: two searches overlapped, the one started later ended first,
\* and with no search left in flight the results shown are those of the one
\* started first, for a query that is not the one in the query field.
C19_Witness ==
  /\ searches = <<>>
  /\ lastSearch # None
  /\ lastSearch[1].overtaken
  /\ lastSearch[1].searchTerm = Str_cat
  /\ searchTerm = Str_dog
  /\ Len(searchResults) = 2

\* --------------------------------------------------- claims: write-back

\* The list written back is the list read, document for document, but for
\* the content of the documents the results hold selected matches of.
WrittenFrom(read, results) ==
  /\ stored'.value = documents'
  /\ DOMAIN documents' = DOMAIN read
  /\ \A i \in DOMAIN read :
       /\ [documents'[i] EXCEPT !.content = read[i].content] = read[i]
       /\ (\A r \in DOMAIN results :
             results[r].documentId = read[i].id
               => Len(SelectedMatches(results[r])) = 0)
            => documents'[i] = read[i]

\* C20: the document list is replaced wholesale on write-back. When
\* handleReplace calls onDocumentsUpdated, the list of App and the stored
\* list become the list the invocation read when it started, with new
\* content in the documents it replaced matches in and nothing else changed,
\* whatever uploads, deletions and edits the list of App has seen since.
C20_WriteBackOfListRead ==
  [][/\ (HandleReplace /\ replace = None /\ stored' # stored)
          => WrittenFrom(documents, searchResults)
     /\ ((\E response \in ReplaceResponses : DelegateReplaceReply(response))
          /\ replace' = None)
          => WrittenFrom(replace[1].read, replace[1].searchResults)]_vars

\* An invocation of handleReplace that awaited the delegate has written
\* back: a document uploaded since it started is gone, a document deleted
\* since is back, and a document edited since, in which it replaced
\* nothing, has the content it had at the start.
C20_Witness ==
  /\ appliedChanges # <<>>
  /\ LET w == appliedChanges[1]
     IN /\ documents = w.written
        /\ \E j \in DOMAIN w.listed : FindDocument(w.read, w.listed[j].id) = 0
        /\ \E i \in DOMAIN w.read : FindDocument(w.listed, w.read[i].id) = 0
        /\ \E i \in DOMAIN w.read, j \in DOMAIN w.listed :
             /\ w.listed[j].id = w.read[i].id
             /\ w.listed[j].content # w.read[i].content
             /\ w.written[i] = w.read[i]

\* ------------------------------------------------------ claims: offsets

\* The content at the span of a match is the match's text.
AtOffset(content, m) ==
  /\ m.position >= 0
  /\ Substring(content, m.position, m.position + Len(m.originalText))
       = m.originalText

\* C21: every match of the results, found by the delegate or by a literal
\* scan, has at [position, position + |originalText|) of the content the
\* search read its originalText; and no match comes from a candidate of the
\* delegate whose text does not occur in that content.
C21_TrustworthyOffsets ==
  \A d \in SearchedDocuments :
    /\ \A i \in DOMAIN MatchesFor(d.id) :
         AtOffset(d.content, MatchesFor(d.id)[i])
    /\ \A a \in RepliesFor(d) :
         \A k \in DOMAIN a.candidates :
           (a.candidates[k].kind = "object"
              /\ ~ Includes(d.content, a.candidates[k].text))
             => \A i \in DOMAIN MatchesFor(d.id) :
                  MatchesFor(d.id)[i].id[1] = "ai_match"
                    => MatchesFor(d.id)[i].originalText # a.candidates[k].text

\* C21 witness: the delegate returned a candidate above the threshold whose
\* text is not in the document, and one whose text is there after its first
\* code unit: the only match is the latter.
C21_Witness ==
  \E d \in SearchedDocuments :
    \E a \in RepliesFor(d) :
      /\ a.json = "array"
      /\ \E k \in DOMAIN a.candidates :
           /\ a.candidates[k].kind = "object"
           /\ a.candidates[k].relevance >= RelevanceThreshold
           /\ ~ Includes(d.content, a.candidates[k].text)
      /\ Len(MatchesFor(d.id)) = 1
      /\ MatchesFor(d.id)[1].id[1] = "ai_match"
      /\ MatchesFor(d.id)[1].position > 0

\* -------------------------------------------------- claims: termination

\* The search that started first ends.
OldestSearchEnds == OldestSearchReply /\ Len(searches') < Len(searches)

\* C22: with a delegate that settles every call, no started search stays in
\* flight for ever (searches end in some order, and the one that started
\* first among those in flight always ends), a started preview generation
\* ends with isGeneratingPreviews and processingStatus cleared, and a step
\* that ends a search leaves isSearching false.
C22_StartedWorkFinishes ==
  /\ [][Len(searches') < Len(searches) => ~ isSearching']_vars
  /\ []<>(searches = <<>>) \/ []<><<OldestSearchEnds>>_vars
  /\ (generation # None)
       ~> (generation = None /\ ~ isGeneratingPreviews
             /\ processingStatus = None)

\* C22 witness: a generation has ended of which every call failed or was
\* answered without a usable object, after a search whose calls were
\* rejected or answered; the flags are clear.
C22_Witness ==
  /\ lastSearch # None
  /\ \E i, j \in DOMAIN lastSearch[1].replies :
       /\ lastSearch[1].replies[i].response.kind = "reject"
       /\ lastSearch[1].replies[j].response.kind = "text"
  /\ lastGeneration # None
  /\ Len(lastGeneration[1].replies) >= 2
  /\ \A k \in DOMAIN lastGeneration[1].replies :
       lastGeneration[1].replies[k].response.replacement = None
  /\ \E k \in DOMAIN lastGeneration[1].replies :
       lastGeneration[1].replies[k].response.kind = "reject"
  /\ ~ isSearching /\ ~ isGeneratingPreviews /\ processingStatus = None
  /\ searches = <<>> /\ generation = None

\* ------------------------------------------------- claims: literal scan

\* C23: the matches of a literal scan of one document are listed by
\* increasing position, two consecutive ones at least the length of the
\* query apart, so that their spans do not overlap.
C23_LiteralMatchesApart ==
  \A d \in SearchedDocuments :
    LET matches == MatchesFor(d.id)
    IN (\A i \in DOMAIN matches : IsLiteral(matches[i]))
         => \A i \in 1..(Len(matches) - 1) :
              /\ matches[i + 1].position - matches[i].position
                   >= Len(SearchedTerm)
              /\ matches[i].position + Len(matches[i].originalText)
                   <= matches[i + 1].position

\* C23 witness: the content starts with "aaa", the query is "aa", and the
\* scan has one match in those three code units, not two.
C23_Witness ==
  \E d \in SearchedDocuments :
    LET matches == MatchesFor(d.id)
    IN /\ SubSeq(d.content, 1, 3) = <<"a", "a", "a">>
       /\ SearchedTerm = <<"a", "a">>
       /\ Len(matches) >= 1
       /\ \A i \in DOMAIN matches : IsLiteral(matches[i])
       /\ Cardinality({i \in DOMAIN matches : matches[i].position < 3}) = 1

\* The spans of two matches share no code unit.
Disjoint(m, n) ==
  \/ m.position + Len(m.originalText) <= n.position
  \/ n.position + Len(n.originalText) <= m.position

\* C24, as claimed: within one result the spans
\* [position, position + |originalText|) of the matches are pairwise
\* disjoint, whether the matches come from a literal scan or from the
\* delegate.
C24_SpansDisjoint ==
  \A r \in DOMAIN searchResults :
    \A i, j \in DOMAIN searchResults[r].matches :
      i # j => Disjoint(searchResults[r].matches[i],
                        searchResults[r].matches[j])

\* ------------------------------------------------------ claims: splices

\* C25, as claimed: every splice of applyApprovedChanges replaces the
\* match's original text: the content the splice is made in holds
\* originalText at [position, position + |originalText|).
C25_SpliceReplacesOriginal ==
  \A k \in DOMAIN appliedChanges :
    appliedChanges[k].spliced
      => Substring(appliedChanges[k].before, appliedChanges[k].position,
                   appliedChanges[k].position
                     + Len(appliedChanges[k].originalText))
           = appliedChanges[k].originalText

\* ------------------------------------------------ claims: review dialog

\* C26, as claimed: whenever the review state is reviewing, the list of
\* previews is not empty and currentPreviewIndex is an index into it.
C26_ReviewingHasPreviews ==
  reviewState.isReviewing
    => /\ Len(reviewState.previews) > 0
       /\ reviewState.currentPreviewIndex \in
            0..(Len(reviewState.previews) - 1)

\* The match carries a replacement the user saved in the review (the texts
\* of EditTexts are none of the texts a generation produces).
Edited(m) ==
  m.contextualReplacement # None /\ m.contextualReplacement[1] \in EditTexts

\* C27, as claimed: when the review closes, every splice made for an
\* approved match whose replacement the user edited puts the edited text
\* in the content, the empty text included.
C27_EditedTextIsSpliced ==
  [][ReviewCloses =>
       \A p \in DOMAIN reviewState.previews :
         \A k \in DOMAIN reviewState.previews[p].matches :
           LET m == reviewState.previews[p].matches[k]
           IN (m.approved = "true" /\ Edited(m))
                => \A j \in DOMAIN appliedChanges' :
                     (/\ appliedChanges'[j].spliced
                      /\ appliedChanges'[j].documentId
                           = reviewState.previews[p].documentId
                      /\ appliedChanges'[j].matchId = m.id)
                       => appliedChanges'[j].replacement
                            = m.contextualReplacement[1]
     ]_vars

\* Some match of the open previews is neither approved nor rejected.
SomeMatchPending ==
  \E p \in DOMAIN reviewState.previews :
    \E k \in DOMAIN reviewState.previews[p].matches :
      reviewState.previews[p].matches[k].approved = "undefined"

\* C28: a step from the review dialog that runs applyApprovedChanges is
\* taken only when every match of every open preview is approved or
\* rejected; while some match is pending no close of the dialog applies.
C28_AppliedOnlyWhenAllDecided ==
  [][(ReviewCloses /\ applies' # applies) => ~ SomeMatchPending]_vars

\* ------------------------------------------------ claims: isSearching flag

\* C29: isSearching is true exactly while some invocation of handleSearch
\* that passed validation is in flight; with overlapping searches too, the
\* flag is never false while one of them awaits the delegate or has not
\* published its results.
C29_SearchingWhileInFlight == isSearching <=> searches # <<>>

\* ---------------------------------------------- claims: clear all documents

\* C30: a confirmed "Clear All Documents" leaves the document list empty and
\* persists the empty list. (The selected document is state of App that no
\* variable here carries; the handler would set it after the list.)
C30_ClearAllEmptiesStore ==
  [][ClearAllDocuments(TRUE)
       => /\ documents' = <<>>
          /\ stored'.value = <<>>
          /\ stored'.writes = stored.writes + 1
    ]_vars

====
